---- MODULE Spec2Model ----
(***************************************************************************)
(* VizAssistant: the CSV profiler (analyzeCSV), the App session state that *)
(* drives it (handleCsvUpload and the CSV-mode view), and the chart        *)
(* engine's helpers and aggregation stage (scale, calculateCorrelation,    *)
(* the histogram and heatmap branches of `processed`).                     *)
(*                                                                         *)
(* Text is a sequence of one-character strings, so split, trim and Number  *)
(* are computed character by character.  Numbers are integers; a JS number *)
(* that may be NaN is a record, see JsNum and JsNaN.  Quotients are exact  *)
(* rationals (Rat), so IEEE rounding is not part of this development.      *)
(***************************************************************************)
EXTENDS Integers, Sequences, FiniteSets, TLC

VARIABLES
    disk,            \* the CSV file the user has at hand (input of a session)
    mode,            \* App.mode: "null" | "CSV" | "IMAGE"
    csvFile,         \* App.csvFile: NoFile or a file
    datasetStats,    \* App.datasetStats: NoStats or a DatasetStats
    isAnalyzingCsv,  \* App.isAnalyzingCsv
    selectedChart,   \* App.selectedChart: "null" or a ChartTypeId
    pending,         \* files whose FileReader has not fired onload yet
    timers,          \* summaries waiting for their 100 ms timer, oldest first
    lastAlert,       \* text of the last alert() shown, "" when none
    processed,       \* ChartRenderer.processed for the chart on screen
    scaleArgs,       \* arguments scale is applied to
    scaleRes,        \* what scale returned, NoResult before the call
    corrArgs,        \* arguments [x, y] calculateCorrelation is applied to
    corrRes,         \* [done, value]: what calculateCorrelation returned
    quantArgs,       \* the array getQuantiles is applied to
    quantRes,        \* [done, value]: what getQuantiles returned
    geometry,        \* what ChartRenderer returned at its last render
    activeTab,       \* App.activeTab: "R" | "Python"
    imageFile,       \* App.imageFile: "null" or an image
    imagePreview,    \* App.imagePreview: "null" or the data URL of an image
    imageReads,      \* images whose FileReader has not fired onloadend yet
    detectionResult, \* App.detectionResult: NoDetection or a DetectionResult
    isDetecting,     \* App.isDetecting
    showApiKeyModal, \* App.showApiKeyModal
    apiKeyInput,     \* App.apiKeyInput: the length of the text typed
    envKey,          \* whether process.env.API_KEY holds a key
    sessionKey,      \* whether sessionStorage holds 'gemini_key'
    detections       \* detectChartType calls in flight, oldest first

corrVars == <<corrArgs, corrRes>>

quantVars == <<quantArgs, quantRes>>

\* The helper calls other than scale.
calcVars == <<corrVars, quantVars>>

\* The state of the image mode.
imageVars == <<imageFile, imagePreview, imageReads, detectionResult, isDetecting,
               showApiKeyModal, apiKeyInput, envKey, sessionKey, detections>>

vars == <<disk, mode, csvFile, datasetStats, isAnalyzingCsv, selectedChart,
          pending, timers, lastAlert, processed, geometry, activeTab,
          scaleArgs, scaleRes, calcVars, imageVars>>

(***************************************************************************)
(* Bounds of the model.                                                    *)
(***************************************************************************)
MaxTail == 2
MaxRep == 101
MaxInFlight == 2
MaxDetections == 2

(***************************************************************************)
(* Sequence helpers.                                                       *)
(***************************************************************************)
Range(s) == { s[i] : i \in DOMAIN s }

Min2(a, b) == IF a < b THEN a ELSE b

\* Array.prototype.slice(from, to) with 0-based, end-exclusive indices.
Slice(s, from, to) == SubSeq(s, from + 1, Min2(to, Len(s)))

Repeat(x, n) == [i \in 1..n |-> x]

RECURSIVE SeqsUpTo(_, _)
SeqsUpTo(S, n) ==
    IF n = 0 THEN { <<>> }
    ELSE LET shorter == SeqsUpTo(S, n - 1)
         IN  shorter \cup { Append(s, x) : s \in shorter, x \in S }

(***************************************************************************)
(* Strings.                                                                *)
(***************************************************************************)
Digits == <<"0", "1", "2", "3", "4", "5", "6", "7", "8", "9">>

IsDigit(c) == \E i \in 1..10 : Digits[i] = c

DigitVal(c) == (CHOOSE i \in 1..10 : Digits[i] = c) - 1

IsSpace(c) == c \in {" ", "\t", "\r", "\n"}

\* String.prototype.split(sep) for a one-character separator, computed by
\* halving: the last piece of the left half and the first piece of the right
\* half are one piece of the whole.
RECURSIVE Split(_, _)
Split(s, sep) ==
    IF Len(s) = 0 THEN << <<>> >>
    ELSE IF Len(s) = 1 THEN (IF s[1] = sep THEN << <<>>, <<>> >> ELSE <<s>>)
    ELSE LET m == Len(s) \div 2
             l == Split(SubSeq(s, 1, m), sep)
             r == Split(SubSeq(s, m + 1, Len(s)), sep)
         IN  SubSeq(l, 1, Len(l) - 1) \o << l[Len(l)] \o r[1] >> \o Tail(r)

RECURSIVE TrimStart(_)
TrimStart(s) ==
    IF s # <<>> /\ IsSpace(Head(s)) THEN TrimStart(Tail(s)) ELSE s

RECURSIVE TrimEnd(_)
TrimEnd(s) ==
    IF s # <<>> /\ IsSpace(s[Len(s)]) THEN TrimEnd(SubSeq(s, 1, Len(s) - 1)) ELSE s

\* String.prototype.trim().
Trim(s) == TrimEnd(TrimStart(s))

(***************************************************************************)
(* JavaScript values held by a parsed row: undefined, a string, a number,  *)
(* or the number NaN.                                                      *)
(***************************************************************************)
JsUndef == [t |-> "undefined", n |-> 0, s |-> <<>>]
JsNaN == [t |-> "NaN", n |-> 0, s |-> <<>>]
JsStr(s) == [t |-> "string", n |-> 0, s |-> s]
JsNum(n) == [t |-> "number", n |-> n, s |-> <<>>]

RECURSIVE DigitsValue(_)
DigitsValue(s) ==
    IF s = <<>> THEN 0 ELSE 10 * DigitsValue(SubSeq(s, 1, Len(s) - 1)) + DigitVal(s[Len(s)])

\* Number(v): undefined gives NaN, a number is itself, a string is trimmed and
\* then read as a decimal literal; the empty string gives 0.  The alphabet has
\* no sign, point or exponent, so a literal is a run of digits.
ToNumber(v) ==
    CASE v.t = "undefined" -> JsNaN
      [] v.t = "NaN" -> JsNaN
      [] v.t = "number" -> v
      [] v.t = "string" ->
            LET body == Trim(v.s)
            IN  IF body = <<>> THEN JsNum(0)
                ELSE IF \A i \in DOMAIN body : IsDigit(body[i]) THEN JsNum(DigitsValue(body))
                ELSE JsNaN

\* isNaN(x) for a number x.
IsNaN(x) == x.t = "NaN"

\* The decimal digits of a non-negative integer.
RECURSIVE NumToStr(_)
NumToStr(n) ==
    IF n < 10 THEN <<Digits[n + 1]>> ELSE Append(NumToStr(n \div 10), Digits[(n % 10) + 1])

\* String(v).
JsString(v) ==
    CASE v.t = "undefined" -> <<"u", "n", "d", "e", "f", "i", "n", "e", "d">>
      [] v.t = "NaN" -> <<"N", "a", "N">>
      [] v.t = "number" -> NumToStr(v.n)
      [] v.t = "string" -> v.s

\* `Number(v) || 0`
NumberOrZero(v) == LET x == ToNumber(v) IN IF IsNaN(x) THEN 0 ELSE x.n

\* Whether `v ? ... : ...` takes the first branch.
Truthy(v) == (v.t = "string" /\ v.s # <<>>) \/ (v.t = "number" /\ v.n # 0)

\* d[key]: undefined when the object has no such property.
Field(d, key) == IF key \in DOMAIN d THEN d[key] ELSE JsUndef

\* The distinct elements of s in the order of their first occurrence: the
\* order in which properties are added to an object.
FirstSeen(s) ==
    LET first == SelectSeq([i \in DOMAIN s |-> i],
                           LAMBDA i : \A j \in 1..(i - 1) : s[j] # s[i])
    IN  [k \in DOMAIN first |-> s[first[k]]]

\* A property name that is an array index: the canonical decimal form of a
\* non-negative integer.
IsIndexKey(k) ==
    /\ k # <<>>
    /\ \A i \in DOMAIN k : IsDigit(k[i])
    /\ (Len(k) > 1 => k[1] # "0")

\* Object.keys of an object whose properties were added in the order
\* `inserted`: the array-index names in ascending numeric order, then the
\* other names in insertion order.
ObjectKeys(inserted) ==
    LET indexKeys == SelectSeq(inserted, IsIndexKey)
        otherKeys == SelectSeq(inserted, LAMBDA k : ~IsIndexKey(k))
        rank(k) == Cardinality({ j \in DOMAIN indexKeys :
                                   DigitsValue(indexKeys[j]) < DigitsValue(k) }) + 1
    IN  [i \in DOMAIN indexKeys |->
            CHOOSE k \in Range(indexKeys) : rank(k) = i] \o otherKeys

(***************************************************************************)
(* analyzeCSV.                                                             *)
(***************************************************************************)
CHUNK_SIZE == 50 * 1024

dataLimit == 100

\* `values[i]?.trim()` for a 0-based index i.
CellAt(values, i) == IF i + 1 \in DOMAIN values THEN JsStr(Trim(values[i + 1])) ELSE JsUndef

\* LooksNumeric without the test for the empty string.
LooksNumeric_EmptyIsNumber(val) == ~IsNaN(ToNumber(val))

\* `!isNaN(Number(val)) && val !== ''`
LooksNumeric(val) == ~IsNaN(ToNumber(val)) /\ val # JsStr(<<>>)

\* A file is [text, rest, size]: size is File.size in bytes and the chunk that
\* FileReader decodes is `text` followed by `rest` more characters, none of
\* them a line break.  A file that fits in the chunk has rest = 0 and
\* size = Len(text).  A larger file has Len(text) + rest = CHUNK_SIZE: the
\* characters counted by `rest` belong to the line the chunk boundary cuts,
\* and they are not spelled out because ChunkLines pops that line unread.
ChunkLength(file) == Len(file.text) + file.rest

\* ChunkLines without `lines.pop()`.
ChunkLines_NoPop(file) ==
    SelectSeq(Split(file.text, "\n"), LAMBDA l : Len(Trim(l)) > 0)

\* ChunkLines with `lines.pop()` for a file of any size.
ChunkLines_AlwaysPop(file) ==
    LET split == Split(file.text, "\n")
    IN  SelectSeq(SubSeq(split, 1, Len(split) - 1), LAMBDA l : Len(Trim(l)) > 0)

ChunkLines(file) ==
    LET split == Split(file.text, "\n")
        kept == IF file.size > CHUNK_SIZE THEN SubSeq(split, 1, Len(split) - 1) ELSE split
    IN  SelectSeq(kept, LAMBDA l : Len(Trim(l)) > 0)

\* EstimatedTotalRows counting the header line as a row of a small file.
EstimatedTotalRows_CountsHeader(file, lines) ==
    IF file.size > CHUNK_SIZE
    THEN (file.size * Len(lines)) \div CHUNK_SIZE
    ELSE Len(lines)

\* EstimatedTotalRows extrapolating from the data rows only.
EstimatedTotalRows_DataRowsOnly(file, lines) ==
    IF file.size > CHUNK_SIZE
    THEN (file.size * (Len(lines) - 1)) \div CHUNK_SIZE
    ELSE Len(lines) - 1

EstimatedTotalRows(file, lines) ==
    IF file.size > CHUNK_SIZE
    THEN (file.size * Len(lines)) \div CHUNK_SIZE
    ELSE Len(lines) - 1

Headers(lines) ==
    LET toks == Split(lines[1], ",") IN [i \in DOMAIN toks |-> Trim(toks[i])]

\* `lines.slice(1, 6).map(row => row.split(','))`
SampleRows(lines) ==
    LET first == Slice(lines, 1, 6) IN [r \in DOMAIN first |-> Split(first[r], ",")]

\* DataRows without the limit.
DataRows_NoLimit(lines) == Tail(lines)

\* `lines.slice(1, dataLimit + 1)`
DataRows(lines) == Slice(lines, 1, dataLimit + 1)

ColumnProfile(lines, headers, index) ==
    LET sampleRows == SampleRows(lines)
        values == [r \in DOMAIN sampleRows |-> CellAt(sampleRows[r], index)]
        isNumeric == \A r \in DOMAIN values : LooksNumeric(values[r])
        rows100 == Slice(lines, 1, 101)
        allValuesInCol == [r \in DOMAIN rows100 |-> CellAt(Split(rows100[r], ","), index)]
    IN  [name |-> headers[index + 1],
         type |-> IF isNumeric THEN "numeric" ELSE "categorical",
         uniqueCount |-> Cardinality(Range(allValuesInCol)),
         sample |-> Slice(values, 0, 3)]

\* RowObject storing an empty cell as the number 0.
RowObject_EmptyIsZero(line, headers) ==
    LET values == Split(line, ",")
        last(h) == CHOOSE i \in DOMAIN headers :
                      headers[i] = h /\ \A j \in DOMAIN headers : headers[j] = h => j <= i
    IN  [h \in Range(headers) |->
            LET val == CellAt(values, last(h) - 1)
            IN  IF LooksNumeric_EmptyIsNumber(val) THEN ToNumber(val) ELSE val]

\* The object built by headers.forEach: a later header of the same name
\* overwrites the value stored by an earlier one.
RowObject(line, headers) ==
    LET values == Split(line, ",")
        last(h) == CHOOSE i \in DOMAIN headers :
                      headers[i] = h /\ \A j \in DOMAIN headers : headers[j] = h => j <= i
    IN  [h \in Range(headers) |->
            LET val == CellAt(values, last(h) - 1)
            IN  IF LooksNumeric(val) THEN ToNumber(val) ELSE val]

\* The promise's outcome: rejected with a message, or resolved with a summary.
Rejected(msg) == [ok |-> FALSE, error |-> msg]
Resolved(stats) == [ok |-> TRUE, stats |-> stats]

analyzeCSV(file) ==
    IF ChunkLength(file) = 0 THEN Rejected("Empty file")
    ELSE LET lines == ChunkLines(file)
         IN  IF Len(lines) < 2 THEN Rejected("Invalid CSV: Not enough rows")
             ELSE LET headers == Headers(lines)
                      rows == DataRows(lines)
                  IN  Resolved([rowCount |-> EstimatedTotalRows(file, lines),
                                colCount |-> Len(headers),
                                columns |-> [i \in DOMAIN headers |->
                                                ColumnProfile(lines, headers, i - 1)],
                                data |-> [r \in DOMAIN rows |-> RowObject(rows[r], headers)]])

(***************************************************************************)
(* Exact arithmetic.  A JS number that may be NaN or a fraction is         *)
(* [nan, n, d] with n/d in lowest terms and d > 0.                         *)
(***************************************************************************)
Abs(x) == IF x < 0 THEN -x ELSE x

RECURSIVE Gcd(_, _)
Gcd(a, b) == IF b = 0 THEN a ELSE Gcd(b, a % b)

RNaN == [nan |-> TRUE, n |-> 0, d |-> 1]

\* n/d for d # 0.
Rat(n, d) ==
    LET g == Gcd(Abs(n), Abs(d))
        sg == IF d < 0 THEN -1 ELSE 1
    IN  [nan |-> FALSE, n |-> sg * (n \div g), d |-> sg * (d \div g)]

RInt(i) == [nan |-> FALSE, n |-> i, d |-> 1]

RAdd(a, b) == IF a.nan \/ b.nan THEN RNaN ELSE Rat(a.n * b.d + b.n * a.d, a.d * b.d)

RSub(a, b) == IF a.nan \/ b.nan THEN RNaN ELSE Rat(a.n * b.d - b.n * a.d, a.d * b.d)

RMul(a, b) == IF a.nan \/ b.nan THEN RNaN ELSE Rat(a.n * b.n, a.d * b.d)

\* a / b for b # 0 (a zero divisor gives an infinity or NaN in JS and does not
\* occur where this is used).
RDiv(a, b) == IF a.nan \/ b.nan THEN RNaN ELSE Rat(a.n * b.d, a.d * b.n)

\* a === b: NaN is not equal to itself.
StrictEq(a, b) == ~a.nan /\ ~b.nan /\ a = b

(***************************************************************************)
(* ChartRenderer helpers.                                                  *)
(***************************************************************************)
\* scale returning the start of the output range for a degenerate range.
scale_DegenerateToOutMin(val, min, max, outMin, outMax) ==
    IF StrictEq(max, min) THEN outMin
    ELSE RAdd(outMin, RMul(RDiv(RSub(val, min), RSub(max, min)), RSub(outMax, outMin)))

scale(val, min, max, outMin, outMax) ==
    IF StrictEq(max, min) THEN RDiv(RAdd(outMin, outMax), RInt(2))
    ELSE RAdd(outMin, RMul(RDiv(RSub(val, min), RSub(max, min)), RSub(outMax, outMin)))

\* `[...data].sort((a, b) => a - b)`: ascending by value.
RECURSIVE SortAsc(_)
SortAsc(s) ==
    IF Len(s) <= 1 THEN s
    ELSE LET rest == SortAsc(Tail(s))
             below == SelectSeq(rest, LAMBDA v : v < Head(s))
             others == SelectSeq(rest, LAMBDA v : v >= Head(s))
         IN  below \o <<Head(s)>> \o others

\* getQuantiles reading the array as it was passed.
getQuantiles_Unsorted(data) ==
    IF Len(data) = 0 THEN [min |-> 0, q1 |-> 0, median |-> 0, q3 |-> 0, max |-> 0]
    ELSE LET sorted == data
             n == Len(sorted)
         IN  [min |-> sorted[1],
              q1 |-> sorted[(n \div 4) + 1],
              median |-> sorted[(n \div 2) + 1],
              q3 |-> sorted[((3 * n) \div 4) + 1],
              max |-> sorted[n]]

\* getQuantiles taking the lower of the two middle elements as the median.
getQuantiles_LowerMedian(data) ==
    IF Len(data) = 0 THEN [min |-> 0, q1 |-> 0, median |-> 0, q3 |-> 0, max |-> 0]
    ELSE LET sorted == SortAsc(data)
             n == Len(sorted)
         IN  [min |-> sorted[1],
              q1 |-> sorted[(n \div 4) + 1],
              median |-> sorted[((n - 1) \div 2) + 1],
              q3 |-> sorted[((3 * n) \div 4) + 1],
              max |-> sorted[n]]

\* Math.floor(n * 0.25), Math.floor(n * 0.5) and Math.floor(n * 0.75) are
\* n div 4, n div 2 and 3n div 4; JS indices are 0-based.
getQuantiles(data) ==
    IF Len(data) = 0 THEN [min |-> 0, q1 |-> 0, median |-> 0, q3 |-> 0, max |-> 0]
    ELSE LET sorted == SortAsc(data)
             n == Len(sorted)
         IN  [min |-> sorted[1],
              q1 |-> sorted[(n \div 4) + 1],
              median |-> sorted[(n \div 2) + 1],
              q3 |-> sorted[((3 * n) \div 4) + 1],
              max |-> sorted[n]]

SeqMin(s) == CHOOSE m \in Range(s) : \A x \in Range(s) : m <= x

SeqMax(s) == CHOOSE m \in Range(s) : \A x \in Range(s) : m >= x

\* Infinity and -Infinity.
PosInfinity == [nan |-> FALSE, n |-> 1, d |-> 0]

NegInfinity == [nan |-> FALSE, n |-> -1, d |-> 0]

\* Math.min(...s) and Math.max(...s): with no argument they are Infinity
\* and -Infinity.
MathMin(s) == IF s = <<>> THEN PosInfinity ELSE RInt(SeqMin(s))

MathMax(s) == IF s = <<>> THEN NegInfinity ELSE RInt(SeqMax(s))

\* getDensity(data, bins): bin counts over [min, max], smoothed by a moving
\* average in which `arr[i - 1] || val` and `arr[i + 1] || val` take the
\* bin's own count for a neighbour that is missing or 0.  A point is
\* [x, y] with x = min + (i / bins) * range and y the smoothed count.
getDensity(data, bins) ==
    IF Len(data) = 0 THEN <<>>
    ELSE LET min == SeqMin(data)
             max == SeqMax(data)
             range == IF max - min = 0 THEN 1 ELSE max - min
             idx(v) == Min2(((v - min) * bins) \div range, bins - 1)
             count == [i \in 0..(bins - 1) |->
                          Cardinality({ r \in DOMAIN data : idx(data[r]) = i })]
             prev(i) == IF i - 1 >= 0 /\ count[i - 1] # 0 THEN count[i - 1] ELSE count[i]
             next(i) == IF i + 1 <= bins - 1 /\ count[i + 1] # 0 THEN count[i + 1] ELSE count[i]
         IN  [k \in 1..bins |->
                 [x |-> RAdd(RInt(min), Rat((k - 1) * range, bins)),
                  y |-> Rat(prev(k - 1) + 2 * count[k - 1] + next(k - 1), 4)]]

RECURSIVE SumSeq(_)
SumSeq(s) ==
    IF Len(s) = 0 THEN 0
    ELSE IF Len(s) = 1 THEN s[1]
    ELSE LET m == Len(s) \div 2
         IN  SumSeq(SubSeq(s, 1, m)) + SumSeq(SubSeq(s, m + 1, Len(s)))

\* A correlation is numerator / sqrt(radicand); it is kept as its sign and
\* its square p/q in lowest terms, so equal values are equal records.
CorrZero == [sgn |-> 0, p |-> 0, q |-> 1]

CorrOne == [sgn |-> 1, p |-> 1, q |-> 1]

CorrValue(numerator, radicand) ==
    IF numerator = 0 THEN CorrZero
    ELSE LET sq == Rat(numerator * numerator, radicand)
         IN  [sgn |-> IF numerator < 0 THEN -1 ELSE 1, p |-> sq.n, q |-> sq.d]

\* 0 / 0.
CorrNaN == [sgn |-> 0, p |-> 0, q |-> 0]

\* calculateCorrelation without the test of the denominator: a denominator of
\* 0 comes with a numerator of 0.
calculateCorrelation_NoZeroGuard(x, y) ==
    LET n == Len(x) IN
    IF n # Len(y) \/ n = 0 THEN CorrZero
    ELSE LET sumX == SumSeq(x)
             sumY == SumSeq(y)
             sumXY == SumSeq([i \in DOMAIN x |-> x[i] * y[i]])
             sumX2 == SumSeq([i \in DOMAIN x |-> x[i] * x[i]])
             sumY2 == SumSeq([i \in DOMAIN y |-> y[i] * y[i]])
             numerator == n * sumXY - sumX * sumY
             radicand == (n * sumX2 - sumX * sumX) * (n * sumY2 - sumY * sumY)
         IN  IF radicand = 0 THEN CorrNaN ELSE CorrValue(numerator, radicand)

\* calculateCorrelation with a numerator that lacks the factor n.
calculateCorrelation_NumeratorWithoutN(x, y) ==
    LET n == Len(x) IN
    IF n # Len(y) \/ n = 0 THEN CorrZero
    ELSE LET sumX == SumSeq(x)
             sumY == SumSeq(y)
             sumXY == SumSeq([i \in DOMAIN x |-> x[i] * y[i]])
             sumX2 == SumSeq([i \in DOMAIN x |-> x[i] * x[i]])
             sumY2 == SumSeq([i \in DOMAIN y |-> y[i] * y[i]])
             numerator == sumXY - sumX * sumY
             radicand == (n * sumX2 - sumX * sumX) * (n * sumY2 - sumY * sumY)
         IN  IF radicand = 0 THEN CorrZero ELSE CorrValue(numerator, radicand)

\* calculateCorrelation dividing by the variance term of x alone.
calculateCorrelation_XVarianceOnly(x, y) ==
    LET n == Len(x) IN
    IF n # Len(y) \/ n = 0 THEN CorrZero
    ELSE LET sumX == SumSeq(x)
             sumY == SumSeq(y)
             sumXY == SumSeq([i \in DOMAIN x |-> x[i] * y[i]])
             sumX2 == SumSeq([i \in DOMAIN x |-> x[i] * x[i]])
             numerator == n * sumXY - sumX * sumY
             radicand == (n * sumX2 - sumX * sumX) * (n * sumX2 - sumX * sumX)
         IN  IF radicand = 0 THEN CorrZero ELSE CorrValue(numerator, radicand)

\* calculateCorrelation with a variance term of y that lacks the square.
calculateCorrelation_SumNotSquared(x, y) ==
    LET n == Len(x) IN
    IF n # Len(y) \/ n = 0 THEN CorrZero
    ELSE LET sumX == SumSeq(x)
             sumY == SumSeq(y)
             sumXY == SumSeq([i \in DOMAIN x |-> x[i] * y[i]])
             sumX2 == SumSeq([i \in DOMAIN x |-> x[i] * x[i]])
             sumY2 == SumSeq([i \in DOMAIN y |-> y[i] * y[i]])
             numerator == n * sumXY - sumX * sumY
             radicand == (n * sumX2 - sumX * sumX) * (n * sumY2 - sumY)
         IN  IF radicand = 0 THEN CorrZero ELSE CorrValue(numerator, radicand)

calculateCorrelation(x, y) ==
    LET n == Len(x) IN
    IF n # Len(y) \/ n = 0 THEN CorrZero
    ELSE LET sumX == SumSeq(x)
             sumY == SumSeq(y)
             sumXY == SumSeq([i \in DOMAIN x |-> x[i] * y[i]])
             sumX2 == SumSeq([i \in DOMAIN x |-> x[i] * x[i]])
             sumY2 == SumSeq([i \in DOMAIN y |-> y[i] * y[i]])
             numerator == n * sumXY - sumX * sumY
             radicand == (n * sumX2 - sumX * sumX) * (n * sumY2 - sumY * sumY)
         IN  IF radicand = 0 THEN CorrZero ELSE CorrValue(numerator, radicand)

(***************************************************************************)
(* ChartRenderer: the aggregation stage (`processed`).                     *)
(***************************************************************************)
ChartTypeIds == {"histogram", "bar", "box", "violin", "scatter", "line", "density",
                 "ridgeline", "heatmap", "area"}

ColsOfType(columns, type) ==
    LET sel == SelectSeq(columns, LAMBDA c : c.type = type)
    IN  [i \in DOMAIN sel |-> sel[i].name]

\* `data.map(d => Number(d[col])).filter(n => !isNaN(n))`
getNums(data, col) ==
    LET nums == [r \in DOMAIN data |-> ToNumber(data[r][col])]
        kept == SelectSeq(nums, LAMBDA x : ~IsNaN(x))
    IN  [r \in DOMAIN kept |-> kept[r].n]

binCount == 15

\* The bin index without the clamp to binCount - 1.
HistogramBin_NoClamp(v, min, max) ==
    IF max = min THEN v - min
    ELSE ((v - min) * binCount) \div (max - min)

\* The bin of v: Math.min(Math.floor((v - min) / binSize), binCount - 1) with
\* binSize = (max - min) / binCount || 1.
HistogramBin(v, min, max) ==
    IF max = min THEN Min2(v - min, binCount - 1)
    ELSE Min2(((v - min) * binCount) \div (max - min), binCount - 1)

\* 1. Histogram.  With no value at all min is Infinity and max -Infinity, no
\* bin is incremented and every label is NaN.  `labels` holds the numbers
\* that toFixed(1) prints.
Histogram(data, numCols) ==
    LET col == numCols[1]
        vals == getNums(data, col)
        min == SeqMin(vals)
        max == SeqMax(vals)
        binSize == IF max = min THEN RInt(1) ELSE Rat(max - min, binCount)
    IN  [type |-> "bar",
         values |-> [k \in 1..binCount |->
                        IF vals = <<>> THEN 0
                        ELSE Cardinality({ i \in DOMAIN vals :
                                             HistogramBin(vals[i], min, max) = k - 1 })],
         labels |-> [k \in 1..binCount |->
                        IF vals = <<>> THEN RNaN
                        ELSE RAdd(RInt(min), RMul(RInt(k - 1), binSize))],
         xLabel |-> col,
         yLabel |-> "Count"]

\* 7. Heatmap: the cells are pushed row by row.
Heatmap(data, numCols) ==
    LET cols == Slice(numCols, 0, 6)
        size == Len(cols)
    IN  [type |-> "heatmap",
         matrix |-> [k \in 1..size * size |->
                        LET i == ((k - 1) \div size) + 1
                            j == ((k - 1) % size) + 1
                        IN  [x |-> cols[i], y |-> cols[j],
                             value |-> calculateCorrelation(getNums(data, cols[i]),
                                                            getNums(data, cols[j]))]],
         labels |-> cols,
         size |-> size]

\* The values of the rows whose key is k, in row order.
GroupOf(keys, values, k) ==
    LET rows == SelectSeq([i \in DOMAIN keys |-> i], LAMBDA i : keys[i] = k)
    IN  [j \in DOMAIN rows |-> values[rows[j]]]

\* 2. Bar: the first numeric column summed per value of the first
\* categorical column; `groups` gets a property per category when it is
\* first met and Object.keys lists them.
Bar(data, catCols, numCols) ==
    LET cat == catCols[1]
        num == numCols[1]
        k == [r \in DOMAIN data |-> JsString(data[r][cat])]
        v == [r \in DOMAIN data |-> NumberOrZero(data[r][num])]
        keys == Slice(ObjectKeys(FirstSeen(k)), 0, 8)
    IN  [type |-> "bar",
         values |-> [i \in DOMAIN keys |-> SumSeq(GroupOf(k, v, keys[i]))],
         labels |-> keys,
         xLabel |-> cat,
         yLabel |-> num]

IndexLabel == <<"I", "n", "d", "e", "x">>

DateLabel == <<"d", "a", "t", "e">>

\* 3. Line and area: the first 50 rows; a label is the row's position or
\* String(d[xCol]).
LineArea(type, data, numCols) ==
    LET yCol == numCols[1]
        xCol == IF Len(numCols) > 1 THEN numCols[2]
                ELSE IF Truthy(Field(data[1], DateLabel)) THEN DateLabel ELSE IndexLabel
        rows == Slice(data, 0, 50)
    IN  [type |-> "line",
         values |-> [i \in DOMAIN rows |-> NumberOrZero(rows[i][yCol])],
         labels |-> [i \in DOMAIN rows |->
                        IF xCol = IndexLabel THEN JsNum(i - 1)
                        ELSE JsStr(JsString(Field(rows[i], xCol)))],
         xLabel |-> xCol,
         yLabel |-> yCol,
         isArea |-> (type = "area")]

\* 4. Scatter: the first 100 rows; a coordinate may be NaN.
Scatter(data, numCols) ==
    LET xCol == numCols[1]
        yCol == numCols[2]
        rows == Slice(data, 0, 100)
    IN  [type |-> "scatter",
         points |-> [i \in DOMAIN rows |->
                        [x |-> ToNumber(rows[i][xCol]), y |-> ToNumber(rows[i][yCol])]],
         xLabel |-> xCol,
         yLabel |-> yCol]

AllLabel == <<"A", "l", "l">>

\* The rows of `data` whose cell of numCol is a number, as [k, v]: the group
\* key of the row, taken from keys, and the value pushed to the group.
GroupedRows(data, numCol, keys) ==
    LET valid == SelectSeq([r \in DOMAIN data |-> r],
                           LAMBDA r : ~IsNaN(ToNumber(data[r][numCol])))
    IN  [i \in DOMAIN valid |->
            [k |-> keys[valid[i]], v |-> ToNumber(data[valid[i]][numCol]).n]]

\* 5. Box and violin: at most 5 groups of the first numeric column.  A
\* categorical column named by the empty string is falsy and gives the
\* single group 'All'.
BoxViolin(type, data, catCols, numCols) ==
    LET numCol == numCols[1]
        hasCat == Len(catCols) > 0 /\ catCols[1] # <<>>
        keyOf(d) == IF hasCat THEN JsString(d[catCols[1]]) ELSE AllLabel
        rows == GroupedRows(data, numCol, [r \in DOMAIN data |-> keyOf(data[r])])
        k == [i \in DOMAIN rows |-> rows[i].k]
        v == [i \in DOMAIN rows |-> rows[i].v]
        keys == Slice(ObjectKeys(FirstSeen(k)), 0, 5)
        kept == SelectSeq(rows, LAMBDA r : r.k \in Range(keys))
        allVals == [i \in DOMAIN kept |-> kept[i].v]
        xLabel == IF hasCat THEN catCols[1] ELSE <<>>
    IN  IF type = "violin"
        THEN [type |-> "violin",
              data |-> [i \in DOMAIN keys |->
                           [label |-> keys[i],
                            density |-> getDensity(GroupOf(k, v, keys[i]), 20)]],
              yRange |-> <<MathMin(allVals), MathMax(allVals)>>,
              xLabel |-> xLabel,
              yLabel |-> numCol]
        ELSE LET boxes == [i \in DOMAIN keys |->
                              [label |-> keys[i],
                               stats |-> getQuantiles(GroupOf(k, v, keys[i]))]]
             IN  [type |-> "box",
                  data |-> boxes,
                  yRange |-> <<MathMin([i \in DOMAIN boxes |-> boxes[i].stats.min]),
                               MathMax([i \in DOMAIN boxes |-> boxes[i].stats.max])>>,
                  xLabel |-> xLabel,
                  yLabel |-> numCol]

CategoryLabel == <<"C", "a", "t", "e", "g", "o", "r", "y">>

Group1Label == <<"G", "r", "o", "u", "p", " ", "1">>

\* 6. Ridgeline: at most 5 groups, each a density of 40 bins.
Ridgeline(data, catCols, numCols) ==
    LET numCol == numCols[1]
        catCol == IF Len(catCols) > 0 THEN catCols[1] ELSE CategoryLabel
        keyOf(d) == IF catCol # CategoryLabel THEN JsString(d[catCol]) ELSE Group1Label
        rows == GroupedRows(data, numCol, [r \in DOMAIN data |-> keyOf(data[r])])
        k == [i \in DOMAIN rows |-> rows[i].k]
        v == [i \in DOMAIN rows |-> rows[i].v]
        keys == Slice(ObjectKeys(FirstSeen(k)), 0, 5)
        kept == SelectSeq(rows, LAMBDA r : r.k \in Range(keys))
        allVals == [i \in DOMAIN kept |-> kept[i].v]
    IN  [type |-> "ridgeline",
         lines |-> [i \in DOMAIN keys |->
                       [label |-> keys[i],
                        points |-> getDensity(GroupOf(k, v, keys[i]), 40)]],
         xRange |-> <<MathMin(allVals), MathMax(allVals)>>,
         xLabel |-> numCol]

\* 1. Density: the first numeric column as a density of 30 bins.
Density(data, numCols) ==
    LET col == numCols[1]
        vals == getNums(data, col)
    IN  [type |-> "density",
         points |-> getDensity(vals, 30),
         xLabel |-> col,
         range |-> <<MathMin(vals), MathMax(vals)>>]

\* `return null`: the renderer shows "Insufficient Data".
NullProcessed == [type |-> "null"]

\* `processed` with the heatmap drawn from one numeric column.
Processed_HeatmapOneColumn(type, data, columns) ==
    LET numCols == ColsOfType(columns, "numeric")
        catCols == ColsOfType(columns, "categorical")
    IN  IF type = "histogram" /\ Len(numCols) > 0 THEN Histogram(data, numCols)
        ELSE IF type = "density" /\ Len(numCols) > 0 THEN Density(data, numCols)
        ELSE IF type = "bar" /\ Len(catCols) > 0 /\ Len(numCols) > 0
            THEN Bar(data, catCols, numCols)
        ELSE IF type \in {"line", "area"} /\ Len(numCols) > 0
            THEN LineArea(type, data, numCols)
        ELSE IF type = "scatter" /\ Len(numCols) >= 2 THEN Scatter(data, numCols)
        ELSE IF type \in {"box", "violin"} /\ Len(numCols) > 0
            THEN BoxViolin(type, data, catCols, numCols)
        ELSE IF type = "ridgeline" /\ Len(numCols) > 0
            THEN Ridgeline(data, catCols, numCols)
        ELSE IF type = "heatmap" /\ Len(numCols) >= 1 THEN Heatmap(data, numCols)
        ELSE NullProcessed

\* `processed`: a chart type matches the guard of one branch at most, and
\* falls through the others to `return null`.
Processed(type, data, columns) ==
    LET numCols == ColsOfType(columns, "numeric")
        catCols == ColsOfType(columns, "categorical")
    IN  IF type = "histogram" /\ Len(numCols) > 0 THEN Histogram(data, numCols)
        ELSE IF type = "density" /\ Len(numCols) > 0 THEN Density(data, numCols)
        ELSE IF type = "bar" /\ Len(catCols) > 0 /\ Len(numCols) > 0
            THEN Bar(data, catCols, numCols)
        ELSE IF type \in {"line", "area"} /\ Len(numCols) > 0
            THEN LineArea(type, data, numCols)
        ELSE IF type = "scatter" /\ Len(numCols) >= 2 THEN Scatter(data, numCols)
        ELSE IF type \in {"box", "violin"} /\ Len(numCols) > 0
            THEN BoxViolin(type, data, catCols, numCols)
        ELSE IF type = "ridgeline" /\ Len(numCols) > 0
            THEN Ridgeline(data, catCols, numCols)
        ELSE IF type = "heatmap" /\ Len(numCols) >= 2 THEN Heatmap(data, numCols)
        ELSE NullProcessed

(***************************************************************************)
(* ChartRenderer: the render stage.  The SVG is kept as the numbers it is  *)
(* drawn from: bar heights for the bar view, the outline of each group for *)
(* the violin view; the outputs of the other views are kept as the view's  *)
(* kind, none of them writes to `processed`.                               *)
(***************************************************************************)
width == 600

height == 350

padding == 60

plotW == width - padding * 2

plotH == height - padding * 2

RLeq(a, b) == a.n * b.d <= b.n * a.d

RatMax(S) == CHOOSE m \in S : \A x \in S : RLeq(x, m)

\* Array.prototype.reverse.
Reverse(s) == [i \in DOMAIN s |-> s[Len(s) + 1 - i]]

\* 2. Bar (includes histogram): barH of each value.
BarHeights(p) ==
    LET maxVal == MathMax(p.values)
    IN  [i \in DOMAIN p.values |-> scale(RInt(p.values[i]), RInt(0), maxVal, RInt(0), RInt(plotH))]

\* One side of a violin: a point per density point, in the order of `points`.
ViolinSide(points, cx, sign, sectionW, maxDensity, minY, maxY) ==
    [j \in DOMAIN points |->
        LET y == scale(points[j].x, minY, maxY, RInt(height - padding), RInt(padding))
            xOff == RMul(RDiv(points[j].y, maxDensity), RMul(sectionW, Rat(45, 100)))
        IN  [x |-> IF sign > 0 THEN RAdd(cx, xOff) ELSE RSub(cx, xOff), y |-> y]]

\* 6. Violin: the path of group i (0-based) is M cx,bottom L right... L cx,top
\* L left... Z, where `left` is drawn from points.reverse().
ViolinPath(p, i) ==
    LET n == Len(p.data)
        sectionW == Rat(plotW, n)
        maxDensity == RatMax(UNION { { p.data[g].density[j].y :
                                         j \in DOMAIN p.data[g].density } :
                                     g \in DOMAIN p.data })
        cx == RAdd(RAdd(RInt(padding), RMul(RInt(i), sectionW)), RDiv(sectionW, RInt(2)))
        points == p.data[i + 1].density
        right == ViolinSide(points, cx, 1, sectionW, maxDensity, p.yRange[1], p.yRange[2])
        left == ViolinSide(Reverse(points), cx, -1, sectionW, maxDensity,
                           p.yRange[1], p.yRange[2])
    IN  <<[x |-> cx, y |-> RInt(height - padding)]>> \o right
            \o <<[x |-> cx, y |-> RInt(padding)]>> \o left

\* One render of ChartRenderer over the memoized `processed`: what it
\* returns, and `processed` as the render leaves it.  points.reverse()
\* reverses the density array of each violin group in place.
Render(p) ==
    CASE p.type = "null" ->
            [geometry |-> [view |-> "Insufficient Data"], processed |-> p]
      [] p.type = "bar" ->
            [geometry |-> [view |-> "bar", heights |-> BarHeights(p)], processed |-> p]
      [] p.type = "violin" ->
            [geometry |-> [view |-> "violin",
                           paths |-> [g \in DOMAIN p.data |-> ViolinPath(p, g - 1)]],
             processed |-> [p EXCEPT !.data =
                              [g \in DOMAIN p.data |->
                                  [p.data[g] EXCEPT !.density = Reverse(p.data[g].density)]]]]
      [] OTHER ->
            [geometry |-> [view |-> p.type], processed |-> p]

(***************************************************************************)
(* geminiService: detectChartType.  The call to the model either fails     *)
(* (network, quota, key refused) or answers with a text; the texts are     *)
(* flat JSON objects of strings and numerals, or no JSON at all.           *)
(***************************************************************************)
JsNull == [null |-> TRUE, fields |-> <<>>]

\* An object as its properties in insertion order.
JsObject(fields) == [null |-> FALSE, fields |-> fields]

IsQuoted(s) == Len(s) >= 2 /\ s[1] = "\"" /\ s[Len(s)] = "\""

IsNumeral(s) == s # <<>> /\ \A i \in DOMAIN s : IsDigit(s[i])

\* One "key":value member of an object.
JsonMember(m) ==
    LET kv == Split(m, ":")
    IN  IF Len(kv) = 2 /\ IsQuoted(kv[1]) /\ (IsQuoted(kv[2]) \/ IsNumeral(kv[2]))
        THEN [ok |-> TRUE,
              key |-> SubSeq(kv[1], 2, Len(kv[1]) - 1),
              value |-> IF IsQuoted(kv[2]) THEN JsStr(SubSeq(kv[2], 2, Len(kv[2]) - 1))
                        ELSE JsNum(DigitsValue(kv[2]))]
        ELSE [ok |-> FALSE, key |-> <<>>, value |-> JsUndef]

\* JSON.parse: the object a text denotes, or a SyntaxError.
JsonParse(text) ==
    IF Len(text) < 2 \/ text[1] # "{" \/ text[Len(text)] # "}"
    THEN [ok |-> FALSE, value |-> JsNull]
    ELSE LET body == SubSeq(text, 2, Len(text) - 1)
             members == IF body = <<>> THEN <<>> ELSE Split(body, ",")
             parsed == [i \in DOMAIN members |-> JsonMember(members[i])]
         IN  IF \A i \in DOMAIN parsed : parsed[i].ok
             THEN [ok |-> TRUE,
                   value |-> JsObject([i \in DOMAIN parsed |->
                                         [key |-> parsed[i].key, value |-> parsed[i].value]])]
             ELSE [ok |-> FALSE, value |-> JsNull]

ServiceError == [kind |-> "error", text |-> <<>>]

ServiceText(text) == [kind |-> "text", text |-> text]

\* The payload returned from the catch block (chartType and confidence; the
\* explanation and the two code samples are fixed texts as well).
FallbackResult ==
    JsObject(<<[key |-> <<"c", "h", "a", "r", "t", "T", "y", "p", "e">>, value |-> JsStr(<<"B", "a", "r", " ", "C", "h", "a", "r", "t", " ", "(", "D", "e", "t", "e", "c", "t", "e", "d", " ", "-", " ", "M", "o", "c", "k", ")">>)],
               [key |-> <<"c", "o", "n", "f", "i", "d", "e", "n", "c", "e">>, value |-> JsNum(88)]>>)

\* The try block of detectChartType: what it returns, or that it threw.
\* resizeImage resolves in every case.
DetectAttempt(apiKey, response) ==
    IF ~apiKey THEN [ok |-> FALSE, value |-> JsNull]
    ELSE IF response.kind = "error" THEN [ok |-> FALSE, value |-> JsNull]
    ELSE IF response.text = <<>> THEN [ok |-> FALSE, value |-> JsNull]
    ELSE JsonParse(response.text)

\* detectChartType with a catch block that throws again.
detectChartType_Rethrows(apiKey, response) ==
    LET attempt == DetectAttempt(apiKey, response)
    IN  IF attempt.ok THEN [ok |-> TRUE, result |-> attempt.value]
        ELSE [ok |-> FALSE, result |-> JsNull]

\* detectChartType: ok says whether the promise is fulfilled.
detectChartType(apiKey, response) ==
    LET attempt == DetectAttempt(apiKey, response)
    IN  IF attempt.ok THEN [ok |-> TRUE, result |-> attempt.value]
        ELSE [ok |-> TRUE, result |-> FallbackResult]

(***************************************************************************)
(* The files a session can upload.  A file is a header line, at most one   *)
(* free row, a run of equal rows, and at most MaxTail free lines, joined   *)
(* by line breaks; it is either small (it fits in the chunk) or large (the *)
(* chunk cuts its last line).  With a free row and a run of 4 the first    *)
(* free line after the run is the sixth data row, without the free row it  *)
(* is the fifth.                                                           *)
(***************************************************************************)
RECURSIVE Join(_, _)
Join(ss, sep) ==
    IF ss = <<>> THEN <<>>
    ELSE IF Len(ss) = 1 THEN ss[1]
    ELSE LET m == Len(ss) \div 2
         IN  Join(SubSeq(ss, 1, m), sep) \o <<sep>> \o Join(SubSeq(ss, m + 1, Len(ss)), sep)

HeaderSet == { <<"a">>, <<"a", ",", " ", "b">>, <<"a", ",", "a">> }

LineSet == { <<"x", ",", "1">>,
             <<",", "2">>,
             <<"1">>,
             <<>>,
             <<" ", "1", "2", " ", ",", "x">> }

RepLine == <<"1", ",", "1">>

\* Run lengths below the 5 sampled rows; MaxRep is a run past dataLimit.
RepCounts == {0, 4}

BigSizes == { CHUNK_SIZE + 1, (5 * CHUNK_SIZE) \div 2 }

SmallFile(text) == [text |-> text, rest |-> 0, size |-> Len(text)]

BigFile(text, size) == [text |-> text, rest |-> CHUNK_SIZE - Len(text), size |-> size]

\* The scenario file "a,b\n1,x\n2,y\n3,z\n".
ScenarioFile ==
    SmallFile(<<"a", ",", "b", "\n", "1", ",", "x", "\n", "2", ",", "y", "\n",
                "3", ",", "z", "\n">>)

EmptyFile == SmallFile(<<>>)

FamilyTexts(headers, lineSet, repLines) ==
    { Join(<<h>> \o head \o Repeat(rl, rep) \o tail, "\n") :
        h \in headers, head \in SeqsUpTo(lineSet, 1), rl \in repLines,
        rep \in RepCounts, tail \in SeqsUpTo(lineSet, MaxTail) }

\* Files with more data rows than dataLimit.
LongTexts(headers, lineSet, repLines) ==
    { Join(<<h>> \o Repeat(rl, MaxRep) \o tail, "\n") :
        h \in headers, rl \in repLines, tail \in SeqsUpTo(lineSet, 1) }

FamilyFiles(texts) ==
    { SmallFile(t) : t \in texts } \cup { BigFile(t, sz) : t \in texts, sz \in BigSizes }

ProfileFiles(lineSet) ==
    FamilyFiles(FamilyTexts(HeaderSet, lineSet, {RepLine})
                    \cup LongTexts(HeaderSet, lineSet, {RepLine}))
        \cup {ScenarioFile, EmptyFile}

(***************************************************************************)
(* App: session state and handlers.                                        *)
(***************************************************************************)
NoFile == [text |-> <<>>, rest |-> 0, size |-> -1]

NoStats == [rowCount |-> -1, colCount |-> -1, columns |-> <<>>, data |-> <<>>]

NoProcessed == [type |-> "unmounted"]

NoGeometry == [view |-> "unmounted"]

NoDetection == JsNull

NoScale == [val |-> RNaN, min |-> RNaN, max |-> RNaN, outMin |-> RNaN, outMax |-> RNaN]

NoResult == [nan |-> FALSE, n |-> 0, d |-> 0]

\* useState initial values; nothing is in flight and no chart is mounted.
InitSession ==
    /\ mode = "null"
    /\ csvFile = NoFile
    /\ datasetStats = NoStats
    /\ isAnalyzingCsv = FALSE
    /\ selectedChart = "null"
    /\ pending = <<>>
    /\ timers = <<>>
    /\ lastAlert = ""
    /\ processed = NoProcessed
    /\ geometry = NoGeometry
    /\ activeTab = "R"
    /\ imageFile = "null"
    /\ imagePreview = "null"
    /\ imageReads = <<>>
    /\ detectionResult = NoDetection
    /\ isDetecting = FALSE
    /\ showApiKeyModal = FALSE
    /\ apiKeyInput = 0
    /\ detections = <<>>

\* No API key in the build environment or in the tab's session storage.
NoKeys == envKey = FALSE /\ sessionKey = FALSE

NoCorr == [done |-> FALSE, value |-> [sgn |-> 0, p |-> 0, q |-> 1]]

NoQuantiles == [done |-> FALSE, value |-> [min |-> 0, q1 |-> 0, median |-> 0, q3 |-> 0, max |-> 0]]

IdleScale == scaleArgs = NoScale /\ scaleRes = NoResult

IdleCorr == corrArgs = [x |-> <<>>, y |-> <<>>] /\ corrRes = NoCorr

IdleQuant == quantArgs = <<>> /\ quantRes = NoQuantiles

\* A session of the App: no helper is applied on its own.
InitApp == InitSession /\ NoKeys /\ IdleScale /\ IdleCorr /\ IdleQuant

\* The two mode cards of the landing view.
SetMode(m) ==
    /\ mode = "null"
    /\ mode' = m
    /\ UNCHANGED <<disk, csvFile, datasetStats, isAnalyzingCsv, selectedChart,
                   pending, timers, lastAlert, processed, geometry, scaleArgs, scaleRes, calcVars, activeTab, imageVars>>

\* handleCsvUpload up to its await: the file input is rendered in CSV mode
\* while datasetStats is null.  analyzeCSV starts a FileReader on the chunk.
\* At most cap analyses are in flight.
HandleCsvUpload(file, cap) ==
    /\ mode = "CSV"
    /\ datasetStats = NoStats
    /\ Len(pending) + Len(timers) < cap
    /\ csvFile' = file
    /\ isAnalyzingCsv' = TRUE
    /\ pending' = Append(pending, file)
    /\ UNCHANGED <<disk, mode, datasetStats, selectedChart, timers, lastAlert, processed, geometry,
                   scaleArgs, scaleRes, calcVars, activeTab, imageVars>>

RemoveAt(s, i) == SubSeq(s, 1, i - 1) \o SubSeq(s, i + 1, Len(s))

\* App renders again after a state change that leaves type, data and
\* columns as they were: a mounted ChartRenderer renders over the memoized
\* `processed`.
Rerendered ==
    IF selectedChart # "null"
    THEN LET r == Render(processed)
         IN  processed' = r.processed /\ geometry' = r.geometry
    ELSE UNCHANGED <<processed, geometry>>

\* ChartRenderer renders with a new `data`: useMemo computes `processed`
\* again.
Recomputed(type, stats) ==
    LET r == Render(Processed(type, stats.data, stats.columns))
    IN  processed' = r.processed /\ geometry' = r.geometry

\* ReaderOnload with a handleCsvUpload that has no finally block: a
\* rejection leaves isAnalyzingCsv as it is.
ReaderOnload_NoFinally(i) ==
    /\ i \in DOMAIN pending
    /\ pending' = RemoveAt(pending, i)
    /\ LET outcome == analyzeCSV(pending[i])
       IN  IF outcome.ok
           THEN /\ timers' = Append(timers, [file |-> pending[i], stats |-> outcome.stats])
                /\ UNCHANGED lastAlert
           ELSE /\ lastAlert' = "Error analyzing CSV: " \o outcome.error
                /\ UNCHANGED timers
    /\ UNCHANGED <<disk, mode, csvFile, datasetStats, isAnalyzingCsv, selectedChart,
                   processed, geometry, scaleArgs, scaleRes, calcVars, activeTab, imageVars>>

\* reader.onload of the i-th read in progress; reads complete in any order.
\* A rejection reaches the catch and finally blocks of handleCsvUpload
\* before any other event; a summary waits for the 100 ms timer.
ReaderOnload(i) ==
    /\ i \in DOMAIN pending
    /\ pending' = RemoveAt(pending, i)
    /\ LET outcome == analyzeCSV(pending[i])
       IN  IF outcome.ok
           THEN /\ timers' = Append(timers, [file |-> pending[i], stats |-> outcome.stats])
                /\ UNCHANGED <<isAnalyzingCsv, lastAlert, processed, geometry>>
           ELSE /\ lastAlert' = "Error analyzing CSV: " \o outcome.error
                /\ isAnalyzingCsv' = FALSE
                /\ IF isAnalyzingCsv THEN Rerendered ELSE UNCHANGED <<processed, geometry>>
                /\ UNCHANGED timers
    /\ UNCHANGED <<disk, mode, csvFile, datasetStats, selectedChart,
                   scaleArgs, scaleRes, calcVars, activeTab, imageVars>>

\* TimerResolve writing the summary only for the file selected last.
TimerResolve_OnlyLatest ==
    /\ timers # <<>>
    /\ datasetStats' = IF Head(timers).file = csvFile THEN Head(timers).stats ELSE datasetStats
    /\ isAnalyzingCsv' = FALSE
    /\ timers' = Tail(timers)
    /\ IF selectedChart # "null"
       THEN Recomputed(selectedChart, datasetStats')
       ELSE UNCHANGED <<processed, geometry>>
    /\ UNCHANGED <<disk, mode, csvFile, selectedChart, pending, lastAlert,
                   scaleArgs, scaleRes, calcVars, activeTab, imageVars>>

\* The oldest 100 ms timer fires: the promise resolves and handleCsvUpload
\* continues with setDatasetStats and its finally block.
TimerResolve ==
    /\ timers # <<>>
    /\ datasetStats' = Head(timers).stats
    /\ isAnalyzingCsv' = FALSE
    /\ timers' = Tail(timers)
    /\ IF selectedChart # "null"
       THEN Recomputed(selectedChart, datasetStats')
       ELSE UNCHANGED <<processed, geometry>>
    /\ UNCHANGED <<disk, mode, csvFile, selectedChart, pending, lastAlert,
                   scaleArgs, scaleRes, calcVars, activeTab, imageVars>>

\* resetAll without setSelectedChart(null).
ResetAll_KeepsSelectedChart ==
    /\ mode # "null"
    /\ ~showApiKeyModal
    /\ mode' = "null"
    /\ csvFile' = NoFile
    /\ datasetStats' = NoStats
    /\ imageFile' = "null"
    /\ imagePreview' = "null"
    /\ detectionResult' = NoDetection
    /\ UNCHANGED <<disk, isAnalyzingCsv, selectedChart, processed, geometry, pending, timers,
                   lastAlert, activeTab, scaleArgs, scaleRes, calcVars, imageReads,
                   isDetecting, showApiKeyModal, apiKeyInput, envKey, sessionKey,
                   detections>>

\* resetAll abandoning the reads and timers in flight.
ResetAll_CancelsInFlight ==
    /\ mode # "null"
    /\ ~showApiKeyModal
    /\ mode' = "null"
    /\ csvFile' = NoFile
    /\ datasetStats' = NoStats
    /\ selectedChart' = "null"
    /\ imageFile' = "null"
    /\ imagePreview' = "null"
    /\ detectionResult' = NoDetection
    /\ processed' = NoProcessed
    /\ geometry' = NoGeometry
    /\ pending' = <<>>
    /\ timers' = <<>>
    /\ UNCHANGED <<disk, isAnalyzingCsv, lastAlert, activeTab,
                   scaleArgs, scaleRes, calcVars, imageReads, isDetecting,
                   showApiKeyModal, apiKeyInput, envKey, sessionKey, detections>>

\* resetAll, the button of the CSV and the image view; nothing in flight is
\* cancelled and isAnalyzingCsv, isDetecting and activeTab keep their values.
ResetAll ==
    /\ mode # "null"
    /\ ~showApiKeyModal
    /\ mode' = "null"
    /\ csvFile' = NoFile
    /\ datasetStats' = NoStats
    /\ selectedChart' = "null"
    /\ imageFile' = "null"
    /\ imagePreview' = "null"
    /\ detectionResult' = NoDetection
    /\ processed' = NoProcessed
    /\ geometry' = NoGeometry
    /\ UNCHANGED <<disk, isAnalyzingCsv, pending, timers, lastAlert, activeTab,
                   scaleArgs, scaleRes, calcVars, imageReads, isDetecting,
                   showApiKeyModal, apiKeyInput, envKey, sessionKey, detections>>

\* The R and Python tab buttons of the chart view and of the detection
\* result; choosing the tab that is active changes no state.
SetActiveTab(tab) ==
    /\ \/ mode = "CSV" /\ selectedChart # "null"
       \/ mode = "IMAGE" /\ detectionResult # NoDetection
    /\ ~showApiKeyModal
    /\ tab # activeTab
    /\ activeTab' = tab
    /\ Rerendered
    /\ UNCHANGED <<disk, mode, csvFile, datasetStats, isAnalyzingCsv, selectedChart,
                   pending, timers, lastAlert, scaleArgs, scaleRes, calcVars, imageVars>>

\* The state of the CSV mode and the helper calls, which the image mode
\* leaves alone.
csvVars == <<disk, csvFile, datasetStats, isAnalyzingCsv, selectedChart, pending, timers,
             processed, geometry, activeTab, scaleArgs, scaleRes, calcVars>>

\* reader.readAsDataURL: the data URL of a file.
DataUrl(file) == <<"data:", file>>

\* handleImageUpload: the card opens the file dialog while no preview is
\* shown; the read of the file starts.
HandleImageUpload(file) ==
    /\ mode = "IMAGE"
    /\ ~showApiKeyModal
    /\ imagePreview = "null"
    /\ Len(imageReads) < MaxInFlight
    /\ imageFile' = file
    /\ imageReads' = Append(imageReads, file)
    /\ UNCHANGED <<csvVars, mode, lastAlert, imagePreview, detectionResult, isDetecting,
                   showApiKeyModal, apiKeyInput, envKey, sessionKey, detections>>

\* reader.onloadend of the i-th image read.
ImageLoadEnd(i) ==
    /\ i \in DOMAIN imageReads
    /\ imagePreview' = DataUrl(imageReads[i])
    /\ imageReads' = RemoveAt(imageReads, i)
    /\ UNCHANGED <<csvVars, mode, lastAlert, imageFile, detectionResult, isDetecting,
                   showApiKeyModal, apiKeyInput, envKey, sessionKey, detections>>

\* clearImage, the button over the preview.
ClearImage ==
    /\ mode = "IMAGE"
    /\ ~showApiKeyModal
    /\ imagePreview # "null"
    /\ imageFile' = "null"
    /\ imagePreview' = "null"
    /\ detectionResult' = NoDetection
    /\ UNCHANGED <<csvVars, mode, lastAlert, imageReads, isDetecting,
                   showApiKeyModal, apiKeyInput, envKey, sessionKey, detections>>

\* runDetection from its key check to the await: without any key the modal
\* opens; otherwise a stored key is copied to process.env.API_KEY and the
\* call starts.
DetectionStarts ==
    IF ~envKey /\ ~sessionKey
    THEN /\ showApiKeyModal' = TRUE
         /\ UNCHANGED <<envKey, isDetecting, detections>>
    ELSE /\ envKey' = TRUE
         /\ isDetecting' = TRUE
         /\ detections' = Append(detections, [image |-> imagePreview, apiKey |-> envKey'])
         /\ UNCHANGED showApiKeyModal

\* runDetection, the "Analyze Chart" button; it returns at once without a
\* preview.
RunDetection ==
    /\ mode = "IMAGE"
    /\ ~showApiKeyModal
    /\ imageFile # "null"
    /\ imagePreview # "null"
    /\ Len(detections) < MaxDetections
    /\ DetectionStarts
    /\ UNCHANGED <<csvVars, mode, lastAlert, imageFile, imagePreview, imageReads,
                   detectionResult, apiKeyInput, sessionKey>>

\* Typing in the key field of the modal; a key is kept as its length.
SetApiKeyInput(n) ==
    /\ showApiKeyModal
    /\ n # apiKeyInput
    /\ apiKeyInput' = n
    /\ UNCHANGED <<csvVars, mode, lastAlert, imageFile, imagePreview, imageReads,
                   detectionResult, isDetecting, showApiKeyModal, envKey, sessionKey,
                   detections>>

\* saveApiKey without its length test: any input is stored and retried.
SaveApiKey_AnyLength ==
    /\ showApiKeyModal
    /\ Len(detections) < MaxDetections
    /\ sessionKey' = TRUE
    /\ IF imagePreview = "null"
       THEN /\ showApiKeyModal' = FALSE
            /\ UNCHANGED <<envKey, isDetecting, detections>>
       ELSE /\ envKey' = TRUE
            /\ isDetecting' = TRUE
            /\ detections' = Append(detections, [image |-> imagePreview, apiKey |-> TRUE])
            /\ showApiKeyModal' = FALSE
    /\ UNCHANGED <<csvVars, mode, lastAlert, imageFile, imagePreview, imageReads,
                   detectionResult, apiKeyInput>>

\* saveApiKey with a key of more than 10 characters: the key is stored, the
\* modal closes and runDetection is called again.
SaveApiKey ==
    /\ showApiKeyModal
    /\ apiKeyInput > 10
    /\ Len(detections) < MaxDetections
    /\ sessionKey' = TRUE
    /\ IF imagePreview = "null"
       THEN /\ showApiKeyModal' = FALSE
            /\ UNCHANGED <<envKey, isDetecting, detections>>
       ELSE /\ envKey' = TRUE
            /\ isDetecting' = TRUE
            /\ detections' = Append(detections, [image |-> imagePreview, apiKey |-> TRUE])
            /\ showApiKeyModal' = FALSE
    /\ UNCHANGED <<csvVars, mode, lastAlert, imageFile, imagePreview, imageReads,
                   detectionResult, apiKeyInput>>

\* The Cancel button of the modal.
CancelApiKeyModal ==
    /\ showApiKeyModal
    /\ showApiKeyModal' = FALSE
    /\ UNCHANGED <<csvVars, mode, lastAlert, imageFile, imagePreview, imageReads,
                   detectionResult, isDetecting, apiKeyInput, envKey, sessionKey,
                   detections>>

\* The i-th detection in flight settles on a response of the service and
\* runDetection continues after its await.
DetectionSettles(i, response) ==
    /\ i \in DOMAIN detections
    /\ LET outcome == detectChartType(detections[i].apiKey, response)
       IN  IF outcome.ok
           THEN /\ detectionResult' = outcome.result
                /\ UNCHANGED lastAlert
           ELSE /\ lastAlert' = "Detection failed. Please check your API Key."
                /\ UNCHANGED detectionResult
    /\ isDetecting' = FALSE
    /\ detections' = RemoveAt(detections, i)
    /\ UNCHANGED <<csvVars, mode, imageFile, imagePreview, imageReads,
                   showApiKeyModal, apiKeyInput, envKey, sessionKey>>

\* The reader or the timer of some analysis in flight completes.
AnalysisStep == (\E i \in DOMAIN pending : ReaderOnload(i)) \/ TimerResolve

(***************************************************************************)
(* SpecProfile: one file of ProfileFiles is uploaded and profiled.         *)
(***************************************************************************)
InitProfile == InitApp /\ disk \in ProfileFiles(LineSet)

NextProfile ==
    \/ SetMode("CSV")
    \/ HandleCsvUpload(disk, 1)
    \/ AnalysisStep

SpecProfile == InitProfile /\ [][NextProfile]_vars

(***************************************************************************)
(* SpecUpload: the user has a short file and the scenario file at hand and *)
(* may select either while earlier analyses are still in flight.           *)
(***************************************************************************)
UploadLineSet == { <<"2", ",", "x">>, <<>>, <<" ">> }

UploadFiles(lineSet) ==
    FamilyFiles({ Join(<<h>> \o tail, "\n") :
                    h \in {<<"a", ",", " ", "b">>}, tail \in SeqsUpTo(lineSet, MaxTail) })
        \cup {EmptyFile}

InitUpload == InitApp /\ disk \in UploadFiles(UploadLineSet)

NextUpload ==
    \/ SetMode("CSV")
    \/ \E f \in {disk, ScenarioFile} : HandleCsvUpload(f, MaxInFlight)
    \/ AnalysisStep

SpecUpload == InitUpload /\ [][NextUpload]_vars

\* A chart card of the chart list, shown while a summary is loaded and no
\* chart is selected.  ChartRenderer mounts and computes `processed`.
SelectChart(type) ==
    /\ mode = "CSV"
    /\ datasetStats # NoStats
    /\ selectedChart = "null"
    /\ selectedChart' = type
    /\ Recomputed(type, datasetStats)
    /\ UNCHANGED <<disk, mode, csvFile, datasetStats, isAnalyzingCsv, pending,
                   timers, lastAlert, scaleArgs, scaleRes, calcVars, activeTab, imageVars>>

\* "Back to charts": setSelectedChart(null) unmounts ChartRenderer.
BackToCharts ==
    /\ mode = "CSV"
    /\ selectedChart # "null"
    /\ selectedChart' = "null"
    /\ processed' = NoProcessed
    /\ geometry' = NoGeometry
    /\ UNCHANGED <<disk, mode, csvFile, datasetStats, isAnalyzingCsv, pending,
                   timers, lastAlert, scaleArgs, scaleRes, calcVars, activeTab, imageVars>>

(***************************************************************************)
(* SpecChart: a file that fits in the chunk is profiled and its summary is *)
(* charted as a histogram or a heatmap.                                    *)
(***************************************************************************)
ChartLineSet == { <<"2", ",", "1">>,
                  <<"1", ",", "2">>,
                  <<"2", ",", "x">>,
                  <<",", "2">>,
                  <<"1">> }

ChartHeaderSet == { <<"a", ",", " ", "b">>, <<"a", ",", "a">> }

ChartFiles(lineSet) ==
    { SmallFile(t) : t \in FamilyTexts(ChartHeaderSet, lineSet, {RepLine}) }

InitChart == InitApp /\ disk \in ChartFiles(ChartLineSet)

NextChart ==
    \/ SetMode("CSV")
    \/ HandleCsvUpload(disk, 1)
    \/ AnalysisStep
    \/ \E t \in {"histogram", "heatmap"} : SelectChart(t)
    \/ BackToCharts

SpecChart == InitChart /\ [][NextChart]_vars

(***************************************************************************)
(* SpecEngine: a file of a header line and up to MaxRows rows is profiled, *)
(* every chart type is drawn from its summary, and the code tabs are       *)
(* switched while a chart is shown.  The rows make columns of either kind, *)
(* categories that read as integers, groups of unequal values and groups   *)
(* whose values are all 0.                                                 *)
(***************************************************************************)
MaxRows == 3

EngineLineSet == { <<"1", ",", "2">>,
                   <<"2", ",", "1">>,
                   <<"x", ",", "1">>,
                   <<"x", ",", "y">>,
                   <<"x", ",", "0">>,
                   <<"3">> }

EngineHeaderSet == { <<"a">>, <<"a", ",", "b">> }

EngineFiles(lineSet) ==
    { SmallFile(Join(<<h>> \o rows, "\n")) :
        h \in EngineHeaderSet, rows \in SeqsUpTo(lineSet, MaxRows) \ {<<>>} }

TabIds == {"R", "Python"}

InitEngine == InitApp /\ disk \in EngineFiles(EngineLineSet)

NextEngine ==
    \/ SetMode("CSV")
    \/ HandleCsvUpload(disk, 1)
    \/ AnalysisStep
    \/ \E t \in ChartTypeIds : SelectChart(t)
    \/ BackToCharts
    \/ \E tab \in TabIds : SetActiveTab(tab)

SpecEngine == InitEngine /\ [][NextEngine]_vars

(***************************************************************************)
(* SpecSession: the user selects files of SessionFiles while earlier       *)
(* analyses are in flight, looks at charts, and starts over with resetAll  *)
(* at any moment.                                                          *)
(***************************************************************************)
SessionFiles ==
    { SmallFile(<<"a", "\n", "1", "\n", "2">>),
      SmallFile(<<"a", ",", "b", "\n", "x", ",", "1">>),
      EmptyFile }

SessionCharts == {"bar", "violin"}

InitSessionSpec == InitApp /\ disk = NoFile

NextSession ==
    \/ SetMode("CSV")
    \/ \E f \in SessionFiles : HandleCsvUpload(f, MaxInFlight)
    \/ AnalysisStep
    \/ \E t \in SessionCharts : SelectChart(t)
    \/ BackToCharts
    \/ ResetAll

SpecSession == InitSessionSpec /\ [][NextSession]_vars

(***************************************************************************)
(* SpecDetect: the image mode.  The build has an API key or has none; the  *)
(* user uploads images, starts detections, types keys of several lengths   *)
(* in the modal and starts over; each detection settles on one of          *)
(* ServiceResponses.                                                       *)
(***************************************************************************)
ImageFiles == {"chart.png", "photo.jpg"}

KeyLengths == {0, 10, 11}

LineChartText == <<"{", "\"", "c", "h", "a", "r", "t", "T", "y", "p", "e", "\"", ":", "\"", "L", "i", "n", "e", " ", "C", "h", "a", "r", "t", "\"", ",", "\"", "c", "o", "n", "f", "i", "d", "e", "n", "c", "e", "\"", ":", "9", "5", "}">>

ServiceResponses ==
    { ServiceError,
      ServiceText(<<>>),
      ServiceText(<<"S", "o", "r", "r", "y">>),
      ServiceText(SubSeq(LineChartText, 1, Len(LineChartText) - 1)),
      ServiceText(LineChartText) }

InitDetect ==
    /\ InitSession
    /\ envKey \in BOOLEAN
    /\ sessionKey = FALSE
    /\ disk = NoFile
    /\ IdleScale
    /\ IdleCorr
    /\ IdleQuant

NextDetect ==
    \/ SetMode("IMAGE")
    \/ \E f \in ImageFiles : HandleImageUpload(f)
    \/ \E i \in DOMAIN imageReads : ImageLoadEnd(i)
    \/ ClearImage
    \/ RunDetection
    \/ \E n \in KeyLengths : SetApiKeyInput(n)
    \/ SaveApiKey
    \/ CancelApiKeyModal
    \/ \E i \in DOMAIN detections, r \in ServiceResponses : DetectionSettles(i, r)
    \/ ResetAll
    \/ \E tab \in TabIds : SetActiveTab(tab)

SpecDetect == InitDetect /\ [][NextDetect]_vars

(***************************************************************************)
(* SpecAxes: line, area, box and violin charts over files whose headers    *)
(* name a date column, a column called Index and a column without a name,  *)
(* and over a file of 51 rows.                                             *)
(***************************************************************************)
AxesLineSet == { <<"1", ",", "2">>,
                 <<"x", ",", "1">>,
                 <<"y", ",", "2">>,
                 <<",", "3">> }

AxesHeaderSet == { <<"a">>,
                   <<"a", ",", "b">>,
                   <<"d", "a", "t", "e", ",", "a">>,
                   <<"a", ",", "I", "n", "d", "e", "x">>,
                   <<",", "a">> }

\* A header and 50 equal rows followed by a row of its own.
LongFile == SmallFile(Join(<<<<"b">>>> \o Repeat(<<"1">>, 50) \o << <<"2">> >>, "\n"))

AxesFiles(lineSet) ==
    { SmallFile(Join(<<h>> \o rows, "\n")) :
        h \in AxesHeaderSet, rows \in SeqsUpTo(lineSet, MaxRows) \ {<<>>} }
      \cup {LongFile}

AxesCharts == {"line", "area", "box", "violin"}

InitAxes == InitApp /\ disk \in AxesFiles(AxesLineSet)

NextAxes ==
    \/ SetMode("CSV")
    \/ HandleCsvUpload(disk, 1)
    \/ AnalysisStep
    \/ \E t \in AxesCharts : SelectChart(t)
    \/ BackToCharts

SpecAxes == InitAxes /\ [][NextAxes]_vars

(***************************************************************************)
(* SpecLines: files of up to MaxLines lines, blank ones among them and in  *)
(* front of the header, that fit in the chunk or are cut by it.            *)
(***************************************************************************)
MaxLines == 4

LinesLineSet == { <<"a", ",", "b">>, <<"1", ",", "2">>, <<>>, <<" ">> }

LinesFiles(lineSet) ==
    FamilyFiles({ Join(ls, "\n") : ls \in SeqsUpTo(lineSet, MaxLines) \ {<<>>} })

InitLines == InitApp /\ disk \in LinesFiles(LinesLineSet)

NextLines ==
    \/ SetMode("CSV")
    \/ HandleCsvUpload(disk, 1)
    \/ AnalysisStep

SpecLines == InitLines /\ [][NextLines]_vars

(***************************************************************************)
(* SpecScale: scale is applied to arguments drawn from ScaleInputs.        *)
(***************************************************************************)
MaxScaleVal == 2

ScaleInputs == { RInt(i) : i \in -1..MaxScaleVal } \cup {RNaN}

InitScale ==
    /\ InitSession
    /\ NoKeys
    /\ disk = NoFile
    /\ scaleArgs \in [val : ScaleInputs, min : ScaleInputs, max : ScaleInputs,
                       outMin : ScaleInputs, outMax : ScaleInputs]
    /\ scaleRes = NoResult
    /\ IdleCorr
    /\ IdleQuant

CallScale ==
    /\ scaleRes = NoResult
    /\ scaleRes' = scale(scaleArgs.val, scaleArgs.min, scaleArgs.max,
                         scaleArgs.outMin, scaleArgs.outMax)
    /\ UNCHANGED <<disk, mode, csvFile, datasetStats, isAnalyzingCsv, selectedChart,
                   pending, timers, lastAlert, processed, geometry, scaleArgs, calcVars, activeTab, imageVars>>

NextScale == CallScale

SpecScale == InitScale /\ [][NextScale]_vars

(***************************************************************************)
(* SpecCorr: calculateCorrelation is applied to two arrays of integers,    *)
(* the second one free or a positive multiple of the first.                *)
(***************************************************************************)
MaxCorrLen == 3

MaxSlope == 2

CorrVals == {-1, 0, 1, 2}

Times(k, x) == [i \in DOMAIN x |-> k * x[i]]

CorrXs == SeqsUpTo(CorrVals, MaxCorrLen) \cup { <<1, 2, 3>> }

CorrYs(x) == SeqsUpTo(CorrVals, MaxCorrLen) \cup { Times(k, x) : k \in 1..MaxSlope }

InitCorr ==
    /\ InitSession
    /\ NoKeys
    /\ disk = NoFile
    /\ IdleScale
    /\ IdleQuant
    /\ \E x \in CorrXs : \E y \in CorrYs(x) : corrArgs = [x |-> x, y |-> y]
    /\ corrRes = NoCorr

CallCorrelation ==
    /\ ~corrRes.done
    /\ corrRes' = [done |-> TRUE, value |-> calculateCorrelation(corrArgs.x, corrArgs.y)]
    /\ UNCHANGED <<disk, mode, csvFile, datasetStats, isAnalyzingCsv, selectedChart,
                   pending, timers, lastAlert, processed, geometry, scaleArgs, scaleRes,
                   corrArgs, quantVars, activeTab, imageVars>>

NextCorr == CallCorrelation

SpecCorr == InitCorr /\ [][NextCorr]_vars

(***************************************************************************)
(* SpecQuant: getQuantiles is applied to an array of integers.             *)
(***************************************************************************)
MaxQuantLen == 5

QuantVals == {-2, 1, 2, 3, 4, 100}

InitQuant ==
    /\ InitSession
    /\ NoKeys
    /\ disk = NoFile
    /\ IdleScale
    /\ IdleCorr
    /\ quantArgs \in SeqsUpTo(QuantVals, MaxQuantLen)
    /\ quantRes = NoQuantiles

CallQuantiles ==
    /\ ~quantRes.done
    /\ quantRes' = [done |-> TRUE, value |-> getQuantiles(quantArgs)]
    /\ UNCHANGED <<disk, mode, csvFile, datasetStats, isAnalyzingCsv, selectedChart,
                   pending, timers, lastAlert, processed, geometry, scaleArgs, scaleRes,
                   corrVars, quantArgs, activeTab, imageVars>>

NextQuant == CallQuantiles

SpecQuant == InitQuant /\ [][NextQuant]_vars

(***************************************************************************)
(* What the profiler's contract says about a file, stated on the text.     *)
(***************************************************************************)
IsBlankLine(l) == \A i \in DOMAIN l : IsSpace(l[i])

\* The lines of the decoded chunk, without the final line when the file is
\* larger than the chunk.
UntruncatedLines(f) ==
    LET raw == Split(f.text, "\n")
    IN  IF f.size > CHUNK_SIZE THEN [i \in 1..Len(raw) - 1 |-> raw[i]] ELSE raw

NonBlankLines(f) == SelectSeq(UntruncatedLines(f), LAMBDA l : ~IsBlankLine(l))

DecodedEmpty(f) == Len(f.text) + f.rest = 0

CommaCount(l) == Cardinality({ i \in DOMAIN l : l[i] = "," })

\* The file whose summary datasetStats holds: in SpecProfile the session has
\* one file.
Profiled == datasetStats # NoStats

\* A trimmed cell that is a decimal literal of the alphabet.
IsNumberText(cell) ==
    LET body == Trim(cell) IN body # <<>> /\ \A i \in DOMAIN body : IsDigit(body[i])

\* The cells of data row r (1-based, after the header) of file f.
RowCells(f, r) == Split(NonBlankLines(f)[r + 1], ",")

FirstRows(f) == 1..Min2(5, Len(NonBlankLines(f)) - 1)

(***************************************************************************)
(* C1: analyzeCSV fails with the empty-content error when the decoded      *)
(* chunk has no text and with the insufficient-rows error when fewer than  *)
(* 2 non-blank lines remain after the truncation line is removed; the      *)
(* failing analysis leaves no summary behind and handleCsvUpload leaves    *)
(* datasetStats as it was.                                                 *)
(***************************************************************************)
C1_FailureStep(i) ==
    LET f == pending[i]
        failed(msg) == /\ lastAlert' = "Error analyzing CSV: " \o msg
                       /\ pending' = RemoveAt(pending, i)
                       /\ timers' = timers
                       /\ datasetStats' = datasetStats
    IN  /\ DecodedEmpty(f) => failed("Empty file")
        /\ ~DecodedEmpty(f) /\ Len(NonBlankLines(f)) < 2 => failed("Invalid CSV: Not enough rows")

C1_RejectedUploadKeepsStats ==
    [][\A i \in DOMAIN pending : ReaderOnload(i) => C1_FailureStep(i)]_vars

\* An upload failed for lack of rows while a summary was on screen.
C1_Witness ==
    /\ lastAlert = "Error analyzing CSV: Invalid CSV: Not enough rows"
    /\ datasetStats # NoStats
    /\ pending = <<>>
    /\ timers = <<>>

(***************************************************************************)
(* C2: in every summary colCount is the number of comma-separated tokens   *)
(* of the header line, columns has colCount entries and data has at most   *)
(* 100 entries.                                                            *)
(***************************************************************************)
C2_ColumnCountAndRowCap ==
    Profiled =>
        /\ datasetStats.colCount = CommaCount(NonBlankLines(disk)[1]) + 1
        /\ Len(datasetStats.columns) = datasetStats.colCount
        /\ Len(datasetStats.data) <= 100

\* A two-column file with more than 100 data rows was profiled.
C2_Witness ==
    /\ Profiled
    /\ datasetStats.colCount = 2
    /\ Len(NonBlankLines(disk)) > 101
    /\ Len(datasetStats.data) = 100

(***************************************************************************)
(* C3: for a file that fits in the chunk rowCount is the number of         *)
(* non-blank lines minus the header line; the scenario file gives 3 rows,  *)
(* column a numeric and column b categorical.                              *)
(***************************************************************************)
C3_ExactRowCount ==
    Profiled /\ disk.size <= CHUNK_SIZE =>
        /\ datasetStats.rowCount = Len(NonBlankLines(disk)) - 1
        /\ disk = ScenarioFile =>
              /\ datasetStats.rowCount = 3
              /\ datasetStats.columns[1].type = "numeric"
              /\ datasetStats.columns[2].type = "categorical"

C3_Witness == Profiled /\ disk = ScenarioFile

(***************************************************************************)
(* C4: for a file larger than the chunk rowCount is                        *)
(* floor((size / CHUNK_SIZE) * n), n being the number of non-blank lines   *)
(* kept after the final line is dropped, header line included.             *)
(***************************************************************************)
C4_ExtrapolatedRowCount ==
    Profiled /\ disk.size > CHUNK_SIZE =>
        datasetStats.rowCount = (disk.size * Len(NonBlankLines(disk))) \div CHUNK_SIZE

\* 2.5 chunks and 3 kept lines: floor(7.5) = 7.
C4_Witness ==
    /\ Profiled
    /\ 2 * disk.size = 5 * CHUNK_SIZE
    /\ Len(NonBlankLines(disk)) = 3
    /\ datasetStats.rowCount = 7

(***************************************************************************)
(* C5: a column is numeric exactly when each of the first 5 data rows has  *)
(* a cell for it that, trimmed, is non-empty and a number; otherwise it is *)
(* categorical.                                                            *)
(***************************************************************************)
C5_NumericIffFirstFiveParse ==
    Profiled =>
        \A c \in DOMAIN datasetStats.columns :
            LET allNumbers == \A r \in FirstRows(disk) :
                                 /\ c <= Len(RowCells(disk, r))
                                 /\ IsNumberText(RowCells(disk, r)[c])
            IN  datasetStats.columns[c].type =
                    IF allNumbers THEN "numeric" ELSE "categorical"

\* A column is typed numeric although its sixth data row is not a number.
C5_Witness ==
    /\ Profiled
    /\ Len(NonBlankLines(disk)) >= 7
    /\ datasetStats.columns[1].type = "numeric"
    /\ ~IsNumberText(RowCells(disk, 6)[1])

(***************************************************************************)
(* C7: scale(v, a, a, o1, o2) is (o1 + o2) / 2 for all v, a, o1, o2.       *)
(* As stated it fails when a is NaN; it holds for every a that is a        *)
(* number, and for a = NaN the result is NaN.                              *)
(***************************************************************************)
ScaleCalled == scaleRes # NoResult

SameRange == scaleArgs.min = scaleArgs.max

Midpoint(o1, o2) ==
    IF o1.nan \/ o2.nan THEN RNaN ELSE Rat(o1.n * o2.d + o2.n * o1.d, 2 * o1.d * o2.d)

C7_DegenerateRangeAllInputs ==
    ScaleCalled /\ SameRange => scaleRes = Midpoint(scaleArgs.outMin, scaleArgs.outMax)

C7_DegenerateRangeMidpoint ==
    ScaleCalled /\ SameRange =>
        scaleRes = IF scaleArgs.min.nan THEN RNaN
                   ELSE Midpoint(scaleArgs.outMin, scaleArgs.outMax)

\* scale(2, 1, 1, 0, 1) = 1/2.
C7_Witness ==
    /\ ScaleCalled
    /\ scaleArgs = [val |-> RInt(2), min |-> RInt(1), max |-> RInt(1),
                    outMin |-> RInt(0), outMax |-> RInt(1)]
    /\ scaleRes = Rat(1, 2)

HistogramShown == selectedChart = "histogram" /\ processed.type = "bar"

HeatmapShown == selectedChart = "heatmap" /\ processed.type = "heatmap"

(***************************************************************************)
(* C8: the 15 histogram bin counts sum to the number of sampled rows that  *)
(* hold a number for the first numeric column; a row whose cell is missing *)
(* or empty is in no bin.                                                  *)
(***************************************************************************)
C8_BinsSumToNumericCells ==
    HistogramShown =>
        /\ Len(processed.values) = 15
        /\ SumSeq(processed.values) =
              Cardinality({ r \in DOMAIN datasetStats.data :
                              datasetStats.data[r][processed.xLabel].t = "number" })

(***************************************************************************)
(* C9: the heatmap matrix is symmetric, also for two columns with          *)
(* different numbers of valid numeric values.                              *)
(***************************************************************************)
HeatCell(i, j) == processed.matrix[(i - 1) * processed.size + j]

C9_MatrixSymmetric ==
    HeatmapShown =>
        \A i, j \in 1..processed.size : HeatCell(i, j).value = HeatCell(j, i).value

\* Two columns with different numbers of valid values, hence a zero cell.
C9_Witness ==
    /\ HeatmapShown
    /\ \E i, j \in 1..processed.size :
          Len(getNums(datasetStats.data, processed.labels[i])) #
              Len(getNums(datasetStats.data, processed.labels[j]))

(***************************************************************************)
(* C10: every diagonal cell of the heatmap matrix is 1.  As stated it      *)
(* fails for a column whose values are all equal, where the cell is 0; it  *)
(* holds for every column with two different values.                       *)
(***************************************************************************)
ColumnValues(name) == Range(getNums(datasetStats.data, name))

C10_DiagonalAlwaysOne ==
    HeatmapShown => \A i \in 1..processed.size : HeatCell(i, i).value = CorrOne

C10_DiagonalOneUnlessConstant ==
    HeatmapShown =>
        \A i \in 1..processed.size :
            HeatCell(i, i).value =
                IF Cardinality(ColumnValues(processed.labels[i])) > 1
                THEN CorrOne ELSE CorrZero

\* A heatmap with a varying column and a constant column.
C10_Witness ==
    /\ HeatmapShown
    /\ \E i, j \in 1..processed.size :
          /\ HeatCell(i, i).value = CorrOne
          /\ HeatCell(j, j).value = CorrZero

(***************************************************************************)
(* C11: calculateCorrelation returns 0 when the arrays are empty or of     *)
(* different lengths and when either variance term n*sum(v^2) - sum(v)^2   *)
(* is 0; in every other case the product under the square root is          *)
(* positive, so the quotient has a non-zero denominator.                   *)
(***************************************************************************)
VarianceTerm(v) == Len(v) * SumSeq([i \in DOMAIN v |-> v[i] * v[i]]) - SumSeq(v) * SumSeq(v)

CorrDegenerate ==
    \/ Len(corrArgs.x) = 0
    \/ Len(corrArgs.x) # Len(corrArgs.y)
    \/ VarianceTerm(corrArgs.x) = 0
    \/ VarianceTerm(corrArgs.y) = 0

C11_ZeroOnDegenerateInput ==
    corrRes.done =>
        IF CorrDegenerate THEN corrRes.value = CorrZero
        ELSE /\ VarianceTerm(corrArgs.x) * VarianceTerm(corrArgs.y) > 0
             /\ corrRes.value.q > 0

\* A constant x against a varying y of the same length.
C11_Witness ==
    /\ corrRes.done
    /\ Len(corrArgs.x) = Len(corrArgs.y)
    /\ Len(corrArgs.x) > 1
    /\ VarianceTerm(corrArgs.x) = 0
    /\ VarianceTerm(corrArgs.y) > 0
    /\ corrRes.value = CorrZero

C13_QuantilesOrderedAndFromGroup ==
    quantRes.done /\ Len(quantArgs) > 0 =>
        LET q == quantRes.value
        IN  /\ q.min <= q.q1
            /\ q.q1 <= q.median
            /\ q.median <= q.q3
            /\ q.q3 <= q.max
            /\ {q.min, q.q1, q.median, q.q3, q.max} \subseteq Range(quantArgs)

\* An unsorted array whose five values are all different.
C13_Witness ==
    /\ quantRes.done
    /\ Len(quantArgs) = 5
    /\ quantArgs[1] > quantArgs[2]
    /\ quantRes.value.min < quantRes.value.q1
    /\ quantRes.value.q1 < quantRes.value.median
    /\ quantRes.value.median < quantRes.value.q3
    /\ quantRes.value.q3 < quantRes.value.max

(***************************************************************************)
(* C14: getQuantiles takes the elements at the 0-based indices 0,          *)
(* floor(n/4), floor(n/2), floor(3n/4) and n-1 of the values in ascending  *)
(* order, without interpolation; [1,2,3,4,100] gives q1 = 2, median = 3,   *)
(* q3 = 4.                                                                 *)
(***************************************************************************)
\* The element at 0-based index k of the ascending order of s: fewer than
\* k+1 elements are smaller and at least k+1 are not larger.
KthSmallest(s, k) ==
    CHOOSE v \in Range(s) :
        /\ Cardinality({ i \in DOMAIN s : s[i] < v }) <= k
        /\ Cardinality({ i \in DOMAIN s : s[i] <= v }) > k

C14_FloorIndexQuantiles ==
    quantRes.done /\ Len(quantArgs) > 0 =>
        LET n == Len(quantArgs)
        IN  /\ quantRes.value = [min |-> KthSmallest(quantArgs, 0),
                                 q1 |-> KthSmallest(quantArgs, n \div 4),
                                 median |-> KthSmallest(quantArgs, n \div 2),
                                 q3 |-> KthSmallest(quantArgs, (3 * n) \div 4),
                                 max |-> KthSmallest(quantArgs, n - 1)]
            /\ quantArgs = <<1, 2, 3, 4, 100>> =>
                  /\ quantRes.value.q1 = 2
                  /\ quantRes.value.median = 3
                  /\ quantRes.value.q3 = 4

C14_Witness ==
    /\ quantRes.done
    /\ quantArgs = <<100, 4, 3, 2, 1>>
    /\ quantRes.value = [min |-> 1, q1 |-> 2, median |-> 3, q3 |-> 4, max |-> 100]

\* The column kinds a chart type requires are among the profiled columns.
KindsPresent(type, columns) ==
    LET nNum == Len(ColsOfType(columns, "numeric"))
        nCat == Len(ColsOfType(columns, "categorical"))
    IN  CASE type = "bar" -> nCat >= 1 /\ nNum >= 1
          [] type \in {"scatter", "heatmap"} -> nNum >= 2
          [] OTHER -> nNum >= 1

ChartMounted == mode = "CSV" /\ selectedChart # "null"

\* C15: whatever chart type is shown over whatever profiled dataset, when the
\* column kinds the type requires are absent (bar: a categorical and a
\* numeric column; scatter and heatmap: two numeric columns; the others: one
\* numeric column) the aggregation is null and the view is the
\* "Insufficient Data" placeholder.
C15_AbsentKindsGiveInsufficientData ==
    (ChartMounted /\ ~KindsPresent(selectedChart, datasetStats.columns))
        => /\ processed = NullProcessed
           /\ geometry = [view |-> "Insufficient Data"]

\* A bar chart is shown over a dataset whose columns are all numeric.
C15_Witness ==
    /\ ChartMounted
    /\ selectedChart = "bar"
    /\ Len(datasetStats.columns) = 2
    /\ \A i \in DOMAIN datasetStats.columns : datasetStats.columns[i].type = "numeric"
    /\ geometry = [view |-> "Insufficient Data"]

\* A step that renders the mounted chart again over the same type, rows and
\* columns.
SameChartRerendered ==
    /\ ChartMounted
    /\ ChartMounted'
    /\ selectedChart' = selectedChart
    /\ datasetStats' = datasetStats
    /\ activeTab' # activeTab

\* C16: rendering the mounted chart again over the same type, rows and
\* columns gives the same geometry and leaves the computed aggregates as
\* they were; for a violin chart the order of each group's density points
\* and the outline paths are unchanged.
C16_RerenderIsRepeatable ==
    [][SameChartRerendered => (geometry' = geometry /\ processed' = processed)]_vars

BarShown ==
    /\ ChartMounted
    /\ selectedChart = "bar"
    /\ KindsPresent("bar", datasetStats.columns)

\* The category of each row: the text of its cell in the first categorical
\* column.
BarCategories ==
    LET cat == ColsOfType(datasetStats.columns, "categorical")[1]
    IN  [r \in DOMAIN datasetStats.data |-> JsString(datasetStats.data[r][cat])]

\* What each row adds to its group: the number in its cell of the first
\* numeric column, 0 for a cell that is no number.
BarAddends ==
    LET num == ColsOfType(datasetStats.columns, "numeric")[1]
    IN  [r \in DOMAIN datasetStats.data |->
            LET x == ToNumber(datasetStats.data[r][num])
            IN  IF IsNaN(x) THEN 0 ELSE x.n]

\* C20: the bar chart shows at most 8 groups, the first 8 distinct
\* categories of the first categorical column in the order they first
\* appear in the rows, whether or not a category reads as an integer; the
\* value of a group is the sum of the first numeric column over its rows,
\* a cell that is no number adding 0.
C20_BarGroupsInFirstSeenOrder ==
    BarShown =>
        LET shown == Slice(FirstSeen(BarCategories), 0, 8)
        IN  /\ processed.labels = shown
            /\ processed.values =
                   [i \in DOMAIN shown |->
                       SumSeq(GroupOf(BarCategories, BarAddends, shown[i]))]

\* The step in which the oldest timer fires and its analysis resolves.
AnalysisResolves == timers # <<>> /\ timers' = Tail(timers)

NothingInFlight == pending = <<>> /\ timers = <<>>

\* C17: an analysis that resolves writes its own result to datasetStats,
\* whether or not its file is the one selected last; the summary held when
\* nothing is in flight any more is that of the analysis that resolved
\* last.
C17_LastResolvedWins ==
    [][AnalysisResolves =>
          /\ analyzeCSV(Head(timers).file).ok
          /\ datasetStats' = analyzeCSV(Head(timers).file).stats]_vars

\* Nothing is in flight and the summary held is not that of the file
\* selected last.
C17_Witness ==
    /\ NothingInFlight
    /\ csvFile # NoFile
    /\ datasetStats # NoStats
    /\ analyzeCSV(csvFile).ok
    /\ datasetStats # analyzeCSV(csvFile).stats

\* C18: resetAll leaves every read and timer in flight as it is, and an
\* analysis that resolves after resetAll, when no file is selected, still
\* writes its summary to datasetStats.
C18_ResetCancelsNothing ==
    [][/\ (mode # "null" /\ mode' = "null") => (pending' = pending /\ timers' = timers)
       /\ (AnalysisResolves /\ csvFile = NoFile) =>
              (datasetStats' # NoStats /\ datasetStats' = Head(timers).stats)]_vars

\* After resetAll and a new entry into CSV mode a summary is shown although
\* no file is selected and nothing is in flight.
C18_Witness ==
    /\ mode = "CSV"
    /\ csvFile = NoFile
    /\ datasetStats # NoStats
    /\ NothingInFlight

\* A call of detectChartType fails: the key is missing, the service call
\* fails, the response is empty or its text is no JSON.
DetectionFails(apiKey, response) ==
    \/ ~apiKey
    \/ response.kind = "error"
    \/ response.text = <<>>
    \/ response.text # LineChartText

\* The step in which a detection in flight settles.
DetectionSettled == Len(detections') < Len(detections)

\* C19: detectChartType is fulfilled for every key state and every response
\* of the service, and with the fallback payload when the key is missing,
\* the service fails, the response is empty or its text is no JSON; when a
\* detection settles runDetection raises no alert and detectionResult is
\* set.
C19_DetectionNeverFails ==
    /\ [](\A apiKey \in BOOLEAN, response \in ServiceResponses :
             LET outcome == detectChartType(apiKey, response)
             IN  /\ outcome.ok
                 /\ DetectionFails(apiKey, response) => outcome.result = FallbackResult)
    /\ [][DetectionSettled =>
             /\ lastAlert' = lastAlert
             /\ detectionResult' # NoDetection
             /\ isDetecting' = FALSE]_vars

\* A detection settled on a failure and the fallback payload is shown.
C19_Witness ==
    /\ mode = "IMAGE"
    /\ detections = <<>>
    /\ ~isDetecting
    /\ detectionResult = FallbackResult
    /\ lastAlert = ""

DensityShown ==
    /\ ChartMounted
    /\ selectedChart = "density"
    /\ KindsPresent("density", datasetStats.columns)

\* The values the density chart is drawn from: the cells of the first
\* numeric column that Number turns into a number.
DensityValues == getNums(datasetStats.data, ColsOfType(datasetStats.columns, "numeric")[1])

\* The number of values in bin i (0-based) of `bins` equal bins over
\* [min, max], the maximum counted in the last bin.
BinCountOf(vals, bins, i) ==
    LET min == SeqMin(vals)
        max == SeqMax(vals)
        range == IF max = min THEN 1 ELSE max - min
    IN  Cardinality({ r \in DOMAIN vals :
                        Min2(((vals[r] - min) * bins) \div range, bins - 1) = i })

\* The neighbour's share in the moving average of bin i: the count of bin j
\* when j is a bin, the count of bin i itself when j is out of range.
NeighbourCount(vals, bins, i, j) ==
    IF j < 0 \/ j > bins - 1 THEN BinCountOf(vals, bins, i) ELSE BinCountOf(vals, bins, j)

\* C21: the density chart's point i has y = (prev + 2 * curr + next) / 4,
\* where prev and next are the counts of bins i - 1 and i + 1, the count of
\* bin i standing in only for a neighbour that is out of range; a neighbour
\* in range with count 0 contributes 0.
C21_SmoothingKeepsZeroNeighbours ==
    (DensityShown /\ DensityValues # <<>>) =>
        \A i \in 0..29 :
            processed.points[i + 1].y =
                Rat(NeighbourCount(DensityValues, 30, i, i - 1)
                      + 2 * BinCountOf(DensityValues, 30, i)
                      + NeighbourCount(DensityValues, 30, i, i + 1), 4)

\* The values the histogram is drawn from.
HistogramValues == getNums(datasetStats.data, ColsOfType(datasetStats.columns, "numeric")[1])

\* Bin i (0-based) of 15 bins of width w = (hi - lo) / 15 from lo, or of
\* width 1 when hi = lo, holds v: lo + i * w <= v < lo + (i + 1) * w, the
\* last bin being closed above.
InBin(v, lo, hi, i) ==
    IF hi = lo THEN i = v - lo
    ELSE /\ i * (hi - lo) <= (v - lo) * 15
         /\ (i = 14 \/ (v - lo) * 15 < (i + 1) * (hi - lo))

\* C22: the histogram has exactly 15 bins of width (max - min) / 15 over
\* the values of the first numeric column, of width 1 when max = min; each
\* value is counted in exactly one bin, the maximum in the last bin when
\* max > min and every value in bin 0 when max = min.
C22_FifteenBins ==
    (HistogramShown /\ HistogramValues # <<>>) =>
        LET vals == HistogramValues
            lo == SeqMin(vals)
            hi == SeqMax(vals)
            w == IF hi = lo THEN RInt(1) ELSE Rat(hi - lo, 15)
        IN  /\ Len(processed.values) = 15
            /\ Len(processed.labels) = 15
            /\ \A i \in 0..14 :
                  /\ processed.labels[i + 1] = RAdd(RInt(lo), RMul(RInt(i), w))
                  /\ processed.values[i + 1] =
                        Cardinality({ r \in DOMAIN vals : InBin(vals[r], lo, hi, i) })
            /\ SumSeq(processed.values) = Len(vals)
            /\ hi > lo => processed.values[15] >= 1
            /\ hi = lo => processed.values[1] = Len(vals)

\* A histogram of unequal values: the minimum is in bin 0, the maximum in
\* bin 14 and a value between them in a bin of its own.
C22_Witness ==
    /\ HistogramShown
    /\ Len(HistogramValues) = 3
    /\ processed.values[1] = 1
    /\ processed.values[8] = 1
    /\ processed.values[15] = 1

\* The bar view is on screen, for a histogram or a categorical bar chart.
BarViewShown == ChartMounted /\ geometry.view = "bar"

\* C23: in the bar view a bar of value 0 has height 0 and a bar holding the
\* maximum value has height plotH = 230, whatever the non-negative values
\* are, all of them 0 included.
C23_BarHeightsFromZeroToPlotH ==
    BarViewShown =>
        \A i \in DOMAIN processed.values :
            /\ processed.values[i] = 0 => geometry.heights[i] = RInt(0)
            /\ processed.values[i] = SeqMax(processed.values) => geometry.heights[i] = RInt(230)

LineShown ==
    /\ ChartMounted
    /\ selectedChart \in {"line", "area"}
    /\ KindsPresent(selectedChart, datasetStats.columns)

\* The label of row i (1-based) of a line or area chart: the text of the
\* second numeric column if there is one, else that of the 'date' field if
\* the first row has a truthy one, else the row's position.
XSource(i) ==
    LET numCols == ColsOfType(datasetStats.columns, "numeric")
        row == datasetStats.data[i]
    IN  IF Len(numCols) > 1 THEN JsStr(JsString(row[numCols[2]]))
        ELSE IF Truthy(Field(datasetStats.data[1], DateLabel))
            THEN JsStr(JsString(Field(row, DateLabel)))
        ELSE JsNum(i - 1)

\* C24: a line or area chart has a point for each of the first 50 rows at
\* most; y is the cell of the first numeric column, 0 for a cell that is no
\* number; x comes from the second numeric column if there is one, else
\* from the 'date' field if the first row has a truthy one, else from the
\* row's position; isArea alone tells area from line.
C24_LineAreaSources ==
    LineShown =>
        LET yCol == ColsOfType(datasetStats.columns, "numeric")[1]
            n == Min2(Len(datasetStats.data), 50)
        IN  /\ processed.type = "line"
            /\ processed.isArea = (selectedChart = "area")
            /\ Len(processed.values) = n
            /\ Len(processed.labels) = n
            /\ \A i \in 1..n :
                  /\ processed.values[i] =
                        (LET y == ToNumber(datasetStats.data[i][yCol])
                         IN  IF IsNaN(y) THEN 0 ELSE y.n)
                  /\ processed.labels[i] = XSource(i)

BoxViolinShown ==
    /\ ChartMounted
    /\ selectedChart \in {"box", "violin"}
    /\ KindsPresent(selectedChart, datasetStats.columns)

\* The rows whose cell of the first numeric column is a number.
NumericRows ==
    LET numCol == ColsOfType(datasetStats.columns, "numeric")[1]
    IN  { r \in DOMAIN datasetStats.data : datasetStats.data[r][numCol].t = "number" }

\* The group of row r: the text of its cell of the first categorical
\* column, 'All' when no column is categorical.
GroupKey(r) ==
    LET catCols == ColsOfType(datasetStats.columns, "categorical")
    IN  IF Len(catCols) > 0 THEN JsString(datasetStats.data[r][catCols[1]]) ELSE AllLabel

\* The numbers of the group k, in row order.
GroupValues(k) ==
    LET numCol == ColsOfType(datasetStats.columns, "numeric")[1]
        rows == SelectSeq([r \in DOMAIN datasetStats.data |-> r],
                          LAMBDA r : r \in NumericRows /\ GroupKey(r) = k)
    IN  [i \in DOMAIN rows |-> datasetStats.data[rows[i]][numCol].n]

\* C25: a box or violin chart has a group for each value of the first
\* categorical column among the rows that hold a number in the first
\* numeric column, or the single group 'All' when no column is
\* categorical; at most 5 groups are kept, each of them holds a value, and
\* a box is drawn from the numbers of its group alone.
C25_GroupsByFirstCategoricalColumn ==
    BoxViolinShown =>
        LET labels == { processed.data[i].label : i \in DOMAIN processed.data }
            keys == { GroupKey(r) : r \in NumericRows }
        IN  /\ Len(processed.data) <= 5
            /\ Cardinality(labels) = Len(processed.data)
            /\ labels \subseteq keys
            /\ Cardinality(keys) <= 5 => labels = keys
            /\ selectedChart = "box" =>
                  \A i \in DOMAIN processed.data :
                      processed.data[i].stats = getQuantiles(GroupValues(processed.data[i].label))

\* What a row stores for the text of a cell: the number it denotes when the
\* trimmed text is a non-empty numeral, the trimmed text otherwise.
StoredFor(cell) ==
    IF IsNumberText(cell) THEN JsNum(DigitsValue(Trim(cell))) ELSE JsStr(Trim(cell))

\* No later column has the name of column c.
LastOfItsName(c) ==
    \A j \in DOMAIN datasetStats.columns :
        j > c => datasetStats.columns[j].name # datasetStats.columns[c].name

\* Row r of the summary agrees with the cells of line r for column c: it
\* holds what the cell stores, and a number in the first 5 rows of a column
\* typed numeric.
RowStoresCell(lines, r, c) ==
    LET cells == Split(lines[r + 1], ",")
        stored == datasetStats.data[r][datasetStats.columns[c].name]
    IN  /\ c <= Len(cells) => stored = StoredFor(cells[c])
        /\ (r <= 5 /\ datasetStats.columns[c].type = "numeric") => stored.t = "number"

\* C26 as stated: every row stores the cell of every column as a number
\* exactly when the trimmed cell is a non-empty numeral and as a string
\* otherwise, whatever the column's type; for a column typed numeric the
\* first 5 rows hold numbers.
C26_EveryColumnStoredByParse ==
    Profiled =>
        LET lines == NonBlankLines(disk)
        IN  \A r \in DOMAIN datasetStats.data, c \in DOMAIN datasetStats.columns :
                RowStoresCell(lines, r, c)

\* C26: every row stores, under each column name, the cell of the last
\* column of that name: as a number exactly when the trimmed cell is a
\* non-empty numeral and as a string otherwise, whatever the column's type;
\* for a column typed numeric whose name no later column repeats the first
\* 5 rows hold numbers.
C26_LastColumnOfNameStoredByParse ==
    Profiled =>
        LET lines == NonBlankLines(disk)
        IN  \A r \in DOMAIN datasetStats.data, c \in DOMAIN datasetStats.columns :
                LastOfItsName(c) => RowStoresCell(lines, r, c)

\* The sixth row holds a string in a column typed numeric.
C26_Witness ==
    /\ Profiled
    /\ Len(datasetStats.data) >= 6
    /\ \E c \in DOMAIN datasetStats.columns :
          /\ LastOfItsName(c)
          /\ datasetStats.columns[c].type = "numeric"
          /\ datasetStats.data[6][datasetStats.columns[c].name].t = "string"

\* The lines of the decoded chunk of f as split at line breaks.
RawLines(f) == Split(f.text, "\n")

\* C27: the summary is made from the lines of the decoded chunk without the
\* final one when the file is larger than CHUNK_SIZE, from all of them when
\* the file fits in the chunk; in both cases blank and whitespace-only
\* lines are left out first, so the header is the first line that is not
\* blank and the rows are the following 100 at most.
C27_LastLineDroppedIffLarger ==
    Profiled =>
        LET raw == RawLines(disk)
            kept == IF disk.size > CHUNK_SIZE THEN SubSeq(raw, 1, Len(raw) - 1) ELSE raw
            lines == SelectSeq(kept, LAMBDA l : ~IsBlankLine(l))
            header == Split(lines[1], ",")
        IN  /\ Len(datasetStats.columns) = Len(header)
            /\ \A c \in DOMAIN header : datasetStats.columns[c].name = Trim(header[c])
            /\ Len(datasetStats.data) = Min2(100, Len(lines) - 1)

\* A file larger than the chunk with a blank line in front of the header:
\* of its four lines the summary has the header and one row.
C27_Witness ==
    /\ Profiled
    /\ disk.size > CHUNK_SIZE
    /\ Len(RawLines(disk)) = 4
    /\ IsBlankLine(RawLines(disk)[1])
    /\ ~IsBlankLine(RawLines(disk)[4])
    /\ Len(datasetStats.data) = 1

\* C28: in every state of the App, after stale completions and resetAll
\* too, a chart is selected only while a summary is held.
C28_SelectedChartHasStats == selectedChart # "null" => datasetStats # NoStats

\* A chart is shown over the summary of an analysis that resolved after
\* resetAll: no file is selected.
C28_Witness ==
    /\ selectedChart # "null"
    /\ csvFile = NoFile
    /\ datasetStats # NoStats
    /\ geometry # NoGeometry

\* The step in which a read in progress completes: what ReaderOnload does to
\* the reads in progress, and no other action of the session shortens them.
ReadCompletes == \E i \in DOMAIN pending : pending' = RemoveAt(pending, i)

(***************************************************************************)
(* SpecSessionFair: SpecSession in which a read in progress completes and  *)
(* a timer that was set fires: the browser delivers both events whatever   *)
(* else the user does.  The two events are named by what they do to the    *)
(* queues (ReadCompletes is the step of ReaderOnload, AnalysisResolves     *)
(* that of TimerResolve), so each is enabled exactly when its handler is.  *)
(***************************************************************************)
SpecSessionFair ==
    /\ InitSessionSpec
    /\ [][NextSession]_vars
    /\ WF_pending(ReadCompletes)
    /\ WF_timers(AnalysisResolves)

\* The step in which handleCsvUpload starts an analysis.
UploadStarts == Len(pending') > Len(pending)

\* The step in which an analysis fails.
AnalysisRejects == Len(pending') < Len(pending) /\ timers' = timers

ServiceCalled ==
    /\ Len(detections') = Len(detections) + 1
    /\ SubSeq(detections', 1, Len(detections)) = detections

\* The step in which the API-key modal opens.
ModalOpens == ~showApiKeyModal /\ showApiKeyModal'

\* The step in which a key is written to session storage.
KeyStored == ~sessionKey /\ sessionKey'

\* C30: the detection service is called only for an existing preview and
\* with a key in the environment or in session storage; the API-key modal
\* opens only when neither holds a key, and then no call is made and
\* isDetecting and detectionResult stay as they are; a key is stored only
\* from an input of more than 10 characters, and storing it closes the modal
\* and calls the service for the preview.
C30_DetectionNeedsPreviewAndKey ==
    [][/\ ServiceCalled =>
            /\ imagePreview # "null"
            /\ envKey \/ sessionKey'
            /\ detections'[Len(detections')].image = imagePreview
       /\ ModalOpens =>
            /\ ~envKey /\ ~sessionKey
            /\ detections' = detections
            /\ isDetecting' = isDetecting
            /\ detectionResult' = detectionResult
       /\ KeyStored =>
            /\ apiKeyInput > 10
            /\ ~showApiKeyModal'
            /\ ServiceCalled]_vars

\* A key was stored from the modal and the retried detection is in flight.
C30_Witness ==
    /\ sessionKey
    /\ ~showApiKeyModal
    /\ isDetecting
    /\ detections # <<>>
    /\ detections[Len(detections)].image = imagePreview

====
